---- MODULE Spec2Model ----
(***************************************************************************)
(* BrightTray: the Brightness Backend (hybrid DDC/CI + WMI), the Monitor   *)
(* Manager facade, the Brightness Controller and the Config store.         *)
(*                                                                         *)
(* Python values are represented as follows.                               *)
(*   Optional[T]      <<>> for None, <<v>> for a value v                   *)
(*   a monitor id     the "_"-separated fields of the string, so           *)
(*                    "MONITOR_1" is <<"MONITOR", "1">>                     *)
(*   a list           a sequence (1-based here, 0-based in the source)     *)
(*   a dict           a function whose DOMAIN is the set of keys           *)
(* The hardware is the environment: what the two enumerators list, which   *)
(* display the OS flags as primary, the brightness of every display, and   *)
(* for every single protocol call whether it answers or raises.            *)
(***************************************************************************)
EXTENDS Integers, Sequences, FiniteSets, TLC

\* Most displays either enumerator lists in the enumeration scenarios.
MaxMon == 3
\* Most displays either enumerator lists in the brightness scenarios.
MaxCtl == 2
\* Largest index handed to the bare index mapping.
MaxIndex == 5
\* Most message pump threads one Manager starts (calls of listen_display_change).
MaxThreads == 2
\* Most messages left waiting in the queue of a pump thread.
MaxMsgs == 2
\* Most display changes the OS announces.
MaxNotes == 2
\* Most refreshes that begin while one Backend call is in flight.
MaxRefresh == 1
\* Most settings changes counted in one burst.
MaxChanges == 3
\* Most timers that have expired and not yet run their function.
MaxRunning == 1
\* Most writes of the settings file in progress at once.
MaxWriters == 2

\* src/src/core/brightness_backend.py:80
SWAP_MONITOR_ORDER == TRUE
\* src/src/core/brightness_backend.py:18,27,35 (the three libraries import)
WIN32_AVAILABLE == TRUE
MONITORCONTROL_AVAILABLE == TRUE
SBC_AVAILABLE == TRUE
\* src/src/config/config_manager.py:19-21
CONFIG_VERSION == "1.0"
DEFAULT_SYNC_MODE == TRUE
DEFAULT_GLOBAL_BRIGHTNESS == 50

None == <<>>
Some(v) == <<v>>

Max(a, b) == IF a >= b THEN a ELSE b
Min(a, b) == IF a <= b THEN a ELSE b

\* Physical display positions the hardware can have.
PhysIdx == 0 .. (MaxMon - 1)
\* Brightness values callers pass: below, inside and above the valid range.
BrightnessInputs == {-10, 50, 150}
\* Brightness values a display can show.
Levels == {0, 50, 100}
\* What one protocol call on one display does when it is made: answer or raise.
Outcomes == [ddc : BOOLEAN, sbc : BOOLEAN]

\* min(100, value): the lower bound forgotten.
ClampUpperOnly(value) == Min(100, value)

\* max(0, min(100, value))
clamp(value) == Max(0, Min(100, value))

\* Python's str(int) and int(str) on the decimal numerals the model uses.
DecimalStr == <<"0", "1", "2", "3", "4", "5", "6", "7", "8", "9">>
NegDecimalStr == <<"-1", "-2">>
IntLits == (0 - Len(NegDecimalStr)) .. (Len(DecimalStr) - 1)
str(n) == IF n >= 0 THEN DecimalStr[n + 1] ELSE NegDecimalStr[0 - n]
IntOf == [s \in {str(n) : n \in IntLits} |->
            CHOOSE n \in IntLits : str(n) = s]
int(s) == IF s \in DOMAIN IntOf THEN Some(IntOf[s]) ELSE None

\* f"MONITOR_{index}"
MonitorId(index) == <<"MONITOR", str(index)>>
\* f"Monitor {index + 1}"
MonitorName(index) == <<"Monitor", str(index + 1)>>

\* list(get_monitors()) / sbc.list_monitors(): n handles in enumeration order.
Enumerate(n) == [k \in 1 .. n |-> k - 1]

VARIABLES
  hwDdc,                 \* displays the DDC/CI enumerator lists, -1: it raises
  hwSbc,                 \* displays the platform enumerator lists, -1: it raises
  hwPrimary,             \* position the OS flags as primary, -1: none found
  lum,                   \* brightness of the display at each physical position
  monitors,              \* BrightnessBackend.monitors
  sbc_displays,          \* BrightnessBackend.sbc_displays
  primary_monitor_index, \* BrightnessBackend.primary_monitor_index
  config,                \* ConfigManager.config
  save_timer,            \* ConfigManager._save_timer: "none", "armed", "fired"
  config_file,           \* content of config.json on disk, None if missing
  last,                  \* the operation that completed last and its outcome
  _lock,                 \* BrightnessController._lock: None or Some(holder)
  calls,                 \* per calling thread, the Controller call it is in
  step,                  \* the statement group executed last, and by whom
  _running,              \* MonitorManager._running
  _hwnd,                 \* MonitorManager._hwnd: None or Some(window)
  change_callback,       \* MonitorManager.change_callback: None or Some(cb)
  _message_thread,       \* MonitorManager._message_thread: None or Some(thread)
  pump,                  \* per message pump thread, where it is in its code
  wndclass,              \* the thread that registered the window class
  msgs,                  \* per pump thread, the messages waiting in its queue
  handled,               \* what _wnd_proc did for display changes, in order
  reader,                \* a Backend call in flight on the foreground thread
  refresher,             \* refresh_monitors in flight on the listener thread
  timers,                \* threading.Timer objects started by save_config
  burst                  \* settings changes and file writes since the last
                         \* change that found no save pending

hwVars == <<hwDdc, hwSbc, hwPrimary>>
backendVars == <<monitors, sbc_displays, primary_monitor_index>>
cfgVars == <<config, save_timer, config_file>>
lockVars == <<_lock, calls, step>>
mgrVars == <<_running, _hwnd, change_callback, _message_thread, pump,
             wndclass, msgs, handled>>
raceVars == <<reader, refresher>>
storeVars == <<timers, burst>>
restVars == <<raceVars, storeVars>>
threadVars == <<lockVars, mgrVars, restVars>>
vars == <<hwDdc, hwSbc, hwPrimary, lum, monitors, sbc_displays,
          primary_monitor_index, config, save_timer, config_file, last,
          threadVars>>

\* The record of a completed operation.
\*   op, arg, value   the operation and its inputs (for refresh_monitors, arg
\*                    says whether the hardware is as the previous
\*                    enumeration saw it)
\*   ret              what it returned
\*   raised           it ended by raising to its caller
\*   hwFail           some protocol call made during it raised
\*   hw               for a single Backend call, what the protocols did
\*   log              the protocol calls of a Backend call, in order
\*   attempted, wrote the ids a Controller operation called set_brightness
\*                    for, and those for which it returned True
\*   saves            calls of ConfigManager.save_config it made
NoCall == [op |-> "idle", arg |-> None, value |-> 0, ret |-> None,
           raised |-> FALSE, hwFail |-> FALSE, hw |-> None, log |-> <<>>,
           attempted |-> {}, wrote |-> {}, saves |-> 0]

\* The threads that call the Controller.
Callers == {"c1", "c2"}

\* A thread that is in no Controller call, and no statement executed yet.
NoCtlCall == [op |-> "none", arg |-> None, value |-> 0, k |-> 0, infos |-> <<>>]
NoStep == [thread |-> None, op |-> "none", kind |-> "none", locked |-> FALSE]

\* No Backend call in flight. seen holds what the call has read so far from
\* the Backend fields, snaps the complete enumerations there were during it.
NoRead == [op |-> "none", index |-> 0, pc |-> "done", seen |-> <<>>,
           snaps |-> {}, ret |-> None, raised |-> FALSE]

\* No refresh in flight.
NoRefresh == [pc |-> "idle", ddc |-> 0, sbc |-> 0, primary |-> 0,
              pre |-> [m |-> 0, s |-> 0, primary |-> 0]]

\* No timer was started: none waits for its deadline, none runs its function.
NoTimers == [waiting |-> 0, running |-> 0, writers |-> <<>>]

\* No settings change yet.
NoBurst == [changes |-> 0, writes |-> 0, clean |-> TRUE]

\* No thread is calling: the scenarios in which operations are called one at
\* a time stay here.
\* The message pump threads one Manager can start, by order of creation.
PumpThreads == 1 .. MaxThreads

\* MonitorManager.__init__: no callback, no thread, no window, not running.
\* No window class is registered and nothing is queued for threads not born.
ManagerInit ==
  /\ _running = FALSE
  /\ _hwnd = None
  /\ change_callback = None
  /\ _message_thread = None
  /\ pump = [i \in PumpThreads |-> "unborn"]
  /\ wndclass = None
  /\ msgs = [i \in PumpThreads |-> <<>>]
  /\ handled = <<>>

ThreadsInit ==
  /\ _lock = None
  /\ calls = [t \in Callers |-> NoCtlCall]
  /\ step = NoStep
  /\ ManagerInit
  /\ reader = NoRead
  /\ refresher = NoRefresh
  /\ timers = NoTimers
  /\ burst = NoBurst

-----------------------------------------------------------------------------
(* ConfigManager *)

_create_default_config ==
  [version |-> CONFIG_VERSION,
   sync_mode |-> DEFAULT_SYNC_MODE,
   global_brightness |-> DEFAULT_GLOBAL_BRIGHTNESS,
   per_monitor |-> <<>>,
   auto_start |-> FALSE,
   last_monitors |-> <<>>]

\* ConfigManager.set without its save: self.config[key] = value
config_set(cfg, key, value) == (key :> value) @@ cfg

\* The property getters: self.config.get(key, default)
config_sync_mode(cfg) ==
  IF "sync_mode" \in DOMAIN cfg THEN cfg.sync_mode ELSE DEFAULT_SYNC_MODE

config_global_brightness(cfg) ==
  IF "global_brightness" \in DOMAIN cfg THEN cfg.global_brightness
  ELSE DEFAULT_GLOBAL_BRIGHTNESS

\* The global_brightness setter without its save.
config_set_global_brightness(cfg, value) ==
  config_set(cfg, "global_brightness", clamp(value))

\* self.config.get("per_monitor", {}).get(monitor_id)
config_get_monitor_brightness(cfg, monitor_id) ==
  LET per_monitor == IF "per_monitor" \in DOMAIN cfg THEN cfg.per_monitor
                     ELSE <<>>
  IN  IF monitor_id \in DOMAIN per_monitor THEN Some(per_monitor[monitor_id])
      ELSE None

\* ConfigManager.set_monitor_brightness without its save.
config_set_monitor_brightness(cfg, monitor_id, value) ==
  LET per_monitor == IF "per_monitor" \in DOMAIN cfg THEN cfg.per_monitor
                     ELSE <<>>
  IN  config_set(cfg, "per_monitor",
                 (monitor_id :> clamp(value)) @@ per_monitor)

-----------------------------------------------------------------------------
(* BrightnessBackend *)

\* The position the OS flags as primary; 0 when win32api is missing, when no
\* display carries the flag or when the enumeration raises (flagged < 0).
_detect_primary_monitor_index(flagged) ==
  IF ~WIN32_AVAILABLE THEN 0
  ELSE IF flagged >= 0 THEN flagged
  ELSE 0

\* A mapping that rotates the first three positions: 0 to 1, 1 to 2, 2 to 0.
SwapRotating(logical_index) ==
  IF logical_index = 0 THEN 1
  ELSE IF logical_index = 1 THEN 2
  ELSE IF logical_index = 2 THEN 0
  ELSE logical_index

\* The mapping with its second branch lost: 0 goes to 1, 1 stays.
SwapOneWay(logical_index) ==
  IF logical_index = 0 THEN 1 ELSE logical_index

_apply_monitor_swap(logical_index) ==
  IF ~SWAP_MONITOR_ORDER THEN logical_index
  ELSE IF logical_index = 0 THEN 1
  ELSE IF logical_index = 1 THEN 0
  ELSE logical_index

get_monitor_count == Max(Len(monitors), Len(sbc_displays))

\* One protocol call in the log of a Backend call.
Attempt(proto, physical_index, value, ok) ==
  [proto |-> proto, idx |-> physical_index, value |-> value, ok |-> ok]

\* The sequence with the protocols in the wrong order: WMI first, DDC/CI as
\* the fallback.
TrySbcFirst(physical_index, value, hw) ==
  LET sbcLog == IF physical_index < Len(sbc_displays)
                THEN <<Attempt("sbc", physical_index, value, hw.sbc)>>
                ELSE <<>>
      sbcOk == physical_index < Len(sbc_displays) /\ hw.sbc
      ddcLog == IF ~sbcOk /\ physical_index < Len(monitors)
                THEN <<Attempt("ddc", physical_index, value, hw.ddc)>>
                ELSE <<>>
      ddcOk == ~sbcOk /\ physical_index < Len(monitors) /\ hw.ddc
  IN  [via |-> IF sbcOk THEN "sbc" ELSE IF ddcOk THEN "ddc" ELSE "none",
       log |-> sbcLog \o ddcLog]

\* The sequence without the short-circuit: WMI is called after a DDC/CI
\* success too.
TryBoth(physical_index, value, hw) ==
  LET ddcLog == IF physical_index < Len(monitors)
                THEN <<Attempt("ddc", physical_index, value, hw.ddc)>>
                ELSE <<>>
      ddcOk == physical_index < Len(monitors) /\ hw.ddc
      sbcLog == IF physical_index < Len(sbc_displays)
                THEN <<Attempt("sbc", physical_index, value, hw.sbc)>>
                ELSE <<>>
      sbcOk == physical_index < Len(sbc_displays) /\ hw.sbc
  IN  [via |-> IF ddcOk THEN "ddc" ELSE IF sbcOk THEN "sbc" ELSE "none",
       log |-> ddcLog \o sbcLog]

\* The sequence with a DDC/CI call that raised made once more before the
\* fallback.
TryDdcTwice(physical_index, value, hw) ==
  LET ddcLog == IF physical_index < Len(monitors)
                THEN IF hw.ddc
                     THEN <<Attempt("ddc", physical_index, value, TRUE)>>
                     ELSE <<Attempt("ddc", physical_index, value, FALSE),
                            Attempt("ddc", physical_index, value, FALSE)>>
                ELSE <<>>
      ddcOk == physical_index < Len(monitors) /\ hw.ddc
      sbcLog == IF ~ddcOk /\ physical_index < Len(sbc_displays)
                THEN <<Attempt("sbc", physical_index, value, hw.sbc)>>
                ELSE <<>>
      sbcOk == ~ddcOk /\ physical_index < Len(sbc_displays) /\ hw.sbc
  IN  [via |-> IF ddcOk THEN "ddc" ELSE IF sbcOk THEN "sbc" ELSE "none",
       log |-> ddcLog \o sbcLog]

\* The try-DDC/CI-then-WMI sequence shared by _check_brightness_support,
\* get_brightness and set_brightness; hw says which protocol answers in this
\* call, value is what is handed to the protocol (0 for a read).
\* Returns the protocol that answered ("ddc", "sbc", "none") and the calls made.
TryProtocols(physical_index, value, hw) ==
  LET ddcLog == IF physical_index < Len(monitors)
                THEN <<Attempt("ddc", physical_index, value, hw.ddc)>>
                ELSE <<>>
      ddcOk == physical_index < Len(monitors) /\ hw.ddc
      sbcLog == IF ~ddcOk /\ physical_index < Len(sbc_displays)
                THEN <<Attempt("sbc", physical_index, value, hw.sbc)>>
                ELSE <<>>
      sbcOk == ~ddcOk /\ physical_index < Len(sbc_displays) /\ hw.sbc
  IN  [via |-> IF ddcOk THEN "ddc" ELSE IF sbcOk THEN "sbc" ELSE "none",
       log |-> ddcLog \o sbcLog]

_check_brightness_support(logical_index, hw) ==
  LET physical_index == _apply_monitor_swap(logical_index)
      total_count == get_monitor_count
  IN  IF physical_index < 0 \/ physical_index >= total_count
      THEN [ret |-> FALSE, log |-> <<>>]
      ELSE LET t == TryProtocols(physical_index, 0, hw)
           IN  [ret |-> t.via # "none", log |-> t.log]

\* What the protocols do at one position under a per-position pattern; no
\* protocol answers for a position the pattern does not cover.
HwAt(hws, physical_index) ==
  IF physical_index \in DOMAIN hws THEN hws[physical_index]
  ELSE [ddc |-> FALSE, sbc |-> FALSE]

\* The per-position patterns a call over the cached lists can meet.
HwPatterns == [0 .. (get_monitor_count - 1) -> Outcomes]

\* MonitorInfo(id, name, index, is_primary, supports_brightness), or None.
get_monitor_info(index, hw) ==
  LET physical_index == _apply_monitor_swap(index)
  IN  IF physical_index < 0 \/ physical_index >= Len(monitors)
      THEN None
      ELSE Some([id |-> MonitorId(index),
                 name |-> MonitorName(index),
                 index |-> index,
                 is_primary |-> (physical_index = primary_monitor_index),
                 supports_brightness |->
                   _check_brightness_support(index, hw).ret])

\* [get_monitor_info(i) for i in range(len(self.monitors))]; hws gives, per
\* physical position, what the capability probe meets.
get_all_monitors_info(hws) ==
  [k \in 1 .. Len(monitors) |->
     get_monitor_info(k - 1, HwAt(hws, _apply_monitor_swap(k - 1)))]

\* The logical index of a monitor id, None for an id that does not start
\* with "MONITOR_" or whose second field is no integer.
_id_to_index(monitor_id) ==
  IF Len(monitor_id) >= 2 /\ monitor_id[1] = "MONITOR"
  THEN int(monitor_id[2])
  ELSE None

AnyFail(log) == \E j \in 1 .. Len(log) : ~log[j].ok

\* BrightnessBackend.get_brightness: the value read, or None, and the calls.
get_brightness(monitor_id, hw) ==
  LET logical_index == _id_to_index(monitor_id)
  IN  IF logical_index = None THEN [ret |-> None, log |-> <<>>]
      ELSE
        LET physical_index == _apply_monitor_swap(logical_index[1])
            total_count == get_monitor_count
        IN  IF physical_index < 0 \/ physical_index >= total_count
            THEN [ret |-> None, log |-> <<>>]
            ELSE LET t == TryProtocols(physical_index, 0, hw)
                 IN  [ret |-> IF t.via = "none" THEN None
                              ELSE Some(lum[physical_index]),
                      log |-> t.log]

\* BrightnessBackend.set_brightness: True or False, the calls made, and the
\* position and value written when a protocol took the write.
set_brightness(monitor_id, value, hw) ==
  LET v == clamp(value)
      logical_index == _id_to_index(monitor_id)
      failed == [ret |-> FALSE, log |-> <<>>, idx |-> None, value |-> v]
  IN  IF logical_index = None THEN failed
      ELSE
        LET physical_index == _apply_monitor_swap(logical_index[1])
            total_count == get_monitor_count
        IN  IF physical_index < 0 \/ physical_index >= total_count
            THEN failed
            ELSE LET t == TryProtocols(physical_index, v, hw)
                 IN  [ret |-> t.via # "none",
                      log |-> t.log,
                      idx |-> IF t.via = "none" THEN None
                              ELSE Some(physical_index),
                      value |-> v]

\* The displays after a set_brightness call.
Written(l, res) ==
  IF res.ret THEN [l EXCEPT ![res.idx[1]] = res.value] ELSE l

\* What the protocols can do in one call at position k. Outcomes that differ
\* only in a protocol the call never reaches (DDC/CI outside its list, WMI
\* outside its list or after a DDC/CI success) are the same behaviour; one
\* representative of each is kept.
OutcomesAt(k) ==
  {o \in Outcomes :
     /\ o.ddc => o.sbc
     /\ (k < 0 \/ k >= Len(monitors)) => ~o.ddc
     /\ (k < 0 \/ k >= Len(sbc_displays)) => (o.sbc <=> o.ddc)}

\* The same for a call on a monitor id.
OutcomesFor(monitor_id) ==
  IF _id_to_index(monitor_id) = None THEN OutcomesAt(-1)
  ELSE OutcomesAt(_apply_monitor_swap(_id_to_index(monitor_id)[1]))

-----------------------------------------------------------------------------
(* Operations *)

\* refresh_monitors keeping the previous list of a source whose enumerator
\* raises.
RefreshKeepingOnFailure(h) ==
  /\ hwDdc' = h.ddc
  /\ hwSbc' = h.sbc
  /\ hwPrimary' = h.primary
  /\ monitors' = IF h.ddc < 0 THEN monitors ELSE Enumerate(h.ddc)
  /\ sbc_displays' = IF h.sbc < 0 THEN sbc_displays ELSE Enumerate(h.sbc)
  /\ primary_monitor_index' = _detect_primary_monitor_index(h.primary)

\* refresh_monitors with the DDC/CI list extended instead of replaced.
RefreshAppending(h) ==
  /\ hwDdc' = h.ddc
  /\ hwSbc' = h.sbc
  /\ hwPrimary' = h.primary
  /\ monitors' = IF h.ddc < 0 THEN <<>>
                 ELSE monitors \o Enumerate(h.ddc)
  /\ sbc_displays' = IF h.sbc < 0 THEN <<>> ELSE Enumerate(h.sbc)
  /\ primary_monitor_index' = _detect_primary_monitor_index(h.primary)

\* What the environment can present to one enumeration.
HwStates(maxN) ==
  [ddc : -1 .. maxN, sbc : -1 .. maxN, primary : -1 .. (maxN - 1)]

\* BrightnessBackend.refresh_monitors on the hardware h, which may have
\* changed since the previous enumeration (or not). Both lists are replaced
\* by what the enumerators return, [] for one that raises; the per-display
\* diagnostic probes only log; the primary index is detected again.
Refresh(h) ==
  /\ hwDdc' = h.ddc
  /\ hwSbc' = h.sbc
  /\ hwPrimary' = h.primary
  /\ monitors' = IF ~MONITORCONTROL_AVAILABLE THEN monitors
                 ELSE IF h.ddc < 0 THEN <<>>
                 ELSE Enumerate(h.ddc)
  /\ sbc_displays' = IF ~SBC_AVAILABLE THEN sbc_displays
                     ELSE IF h.sbc < 0 THEN <<>>
                     ELSE Enumerate(h.sbc)
  /\ primary_monitor_index' = _detect_primary_monitor_index(h.primary)

refresh_monitors ==
  \E h \in HwStates(MaxMon) :
    /\ Refresh(h)
    /\ last' = [NoCall EXCEPT
                  !.op = "refresh_monitors",
                  !.arg = Some(<<h.ddc, h.sbc, h.primary>>
                                 = <<hwDdc, hwSbc, hwPrimary>>)]
    /\ UNCHANGED <<lum, cfgVars, threadVars>>

GetMonitorCount ==
  /\ last' = [NoCall EXCEPT !.op = "get_monitor_count",
                            !.ret = Some(get_monitor_count)]
  /\ UNCHANGED <<hwVars, lum, backendVars, cfgVars, threadVars>>

GetMonitorInfo ==
  \E index \in -1 .. MaxMon, hw \in Outcomes :
    /\ last' = [NoCall EXCEPT !.op = "get_monitor_info",
                              !.arg = Some(index),
                              !.ret = get_monitor_info(index, hw)]
    /\ UNCHANGED <<hwVars, lum, backendVars, cfgVars, threadVars>>

GetAllMonitorsInfo ==
  \E hws \in HwPatterns :
    /\ last' = [NoCall EXCEPT !.op = "get_all_monitors_info",
                              !.ret = get_all_monitors_info(hws)]
    /\ UNCHANGED <<hwVars, lum, backendVars, cfgVars, threadVars>>

ApplyMonitorSwap ==
  \E logical_index \in 0 .. MaxIndex :
    /\ last' = [NoCall EXCEPT !.op = "_apply_monitor_swap",
                              !.arg = Some(logical_index),
                              !.ret = Some(_apply_monitor_swap(logical_index))]
    /\ UNCHANGED <<hwVars, lum, backendVars, cfgVars, threadVars>>

-----------------------------------------------------------------------------
(* The enumeration scenarios: the Backend is constructed on some hardware,  *)
(* the hardware changes, refresh and the read-only queries run.            *)

InitHardware(h) ==
  /\ hwDdc = h.ddc
  /\ hwSbc = h.sbc
  /\ hwPrimary = h.primary
  /\ monitors = IF h.ddc < 0 THEN <<>> ELSE Enumerate(h.ddc)
  /\ sbc_displays = IF h.sbc < 0 THEN <<>> ELSE Enumerate(h.sbc)
  /\ primary_monitor_index = _detect_primary_monitor_index(h.primary)

InitEnum ==
  /\ \E h \in HwStates(MaxMon) : InitHardware(h)
  /\ lum = [k \in PhysIdx |-> DEFAULT_GLOBAL_BRIGHTNESS]
  /\ config = _create_default_config
  /\ save_timer = "none"
  /\ config_file = None
  /\ last = NoCall
  /\ ThreadsInit

NextEnum ==
  \/ refresh_monitors
  \/ GetMonitorCount
  \/ GetMonitorInfo
  \/ GetAllMonitorsInfo
  \/ ApplyMonitorSwap

SpecEnum == InitEnum /\ [][NextEnum]_vars

-----------------------------------------------------------------------------
(* BrightnessController. Every public operation runs under the Controller  *)
(* lock; here each is one step. An operation works on an accumulator:      *)
(*   cfg, lum          the config and the displays so far                  *)
(*   attempted, wrote  ids set_brightness was called for / returned True   *)
(*   saves             save_config(debounce=True) calls so far             *)
(*   hwFail, raised    a protocol call raised / the operation raised       *)

\* The positions behind the records of get_all_monitors_info.
RecordPositions ==
  {_apply_monitor_swap(i) : i \in 0 .. (Len(monitors) - 1)}
    \cap (0 .. (Len(monitors) - 1))

\* The per-position patterns one round of Controller calls can meet.
CtlPatterns ==
  {hws \in [RecordPositions -> Outcomes] :
     \A k \in RecordPositions : hws[k] \in OutcomesAt(k)}

\* The patterns the writes that follow a round of probes can meet: no write
\* is made to a position whose probe found no brightness support, so one
\* representative is kept there.
CtlWrites(hws) ==
  {wr \in CtlPatterns :
     \A k \in RecordPositions :
       (~hws[k].ddc /\ ~hws[k].sbc) => (~wr[k].ddc /\ ~wr[k].sbc)}

\* The pattern in which every protocol answers at every position.
NoPattern == [k \in RecordPositions |-> [ddc |-> TRUE, sbc |-> TRUE]]

\* Some capability probe of monitor_manager.get_monitors() raised.
ProbeFail(hws) ==
  \E i \in 0 .. (Len(monitors) - 1) :
    /\ _apply_monitor_swap(i) < Len(monitors)
    /\ AnyFail(_check_brightness_support(
                 i, HwAt(hws, _apply_monitor_swap(i))).log)

Start(cfg, saves) ==
  [cfg |-> cfg, lum |-> lum, attempted |-> {}, wrote |-> {},
   saves |-> saves, hwFail |-> FALSE, raised |-> FALSE]

\* The loop with the success check dropped: the per-monitor value is stored
\* whatever set_brightness returned.
RECURSIVE SetAllLoopUnchecked(_, _, _, _, _)
SetAllLoopUnchecked(infos, k, value, wr, acc) ==
  IF k > Len(infos) THEN acc
  ELSE IF infos[k] = None THEN [acc EXCEPT !.raised = TRUE]
  ELSE
    LET monitor == infos[k][1]
    IN  IF ~monitor.supports_brightness
        THEN SetAllLoopUnchecked(infos, k + 1, value, wr, acc)
        ELSE
          LET res == set_brightness(
                       monitor.id, value,
                       HwAt(wr, _apply_monitor_swap(monitor.index)))
              next ==
                [acc EXCEPT
                   !.lum = Written(@, res),
                   !.attempted = @ \cup {monitor.id},
                   !.hwFail = @ \/ AnyFail(res.log),
                   !.wrote = IF res.ret THEN @ \cup {monitor.id} ELSE @,
                   !.cfg = config_set_monitor_brightness(
                             @, monitor.id, value),
                   !.saves = @ + 1]
          IN  SetAllLoopUnchecked(infos, k + 1, value, wr, next)

\* The loop leaving at the first write the Backend refuses.
RECURSIVE SetAllLoopStopping(_, _, _, _, _)
SetAllLoopStopping(infos, k, value, wr, acc) ==
  IF k > Len(infos) THEN acc
  ELSE IF infos[k] = None THEN [acc EXCEPT !.raised = TRUE]
  ELSE
    LET monitor == infos[k][1]
    IN  IF ~monitor.supports_brightness
        THEN SetAllLoopStopping(infos, k + 1, value, wr, acc)
        ELSE
          LET res == set_brightness(
                       monitor.id, value,
                       HwAt(wr, _apply_monitor_swap(monitor.index)))
              next ==
                [acc EXCEPT
                   !.lum = Written(@, res),
                   !.attempted = @ \cup {monitor.id},
                   !.hwFail = @ \/ AnyFail(res.log),
                   !.wrote = IF res.ret THEN @ \cup {monitor.id} ELSE @,
                   !.cfg = IF res.ret
                           THEN config_set_monitor_brightness(
                                  @, monitor.id, value)
                           ELSE @,
                   !.saves = IF res.ret THEN @ + 1 ELSE @]
          IN  IF res.ret
              THEN SetAllLoopStopping(infos, k + 1, value, wr, next)
              ELSE next

\* for monitor in monitors: ... of _set_all_brightness_internal, from list
\* position k on; wr is what the protocols do for the writes. A None entry
\* ends the loop with AttributeError at monitor.supports_brightness.
RECURSIVE SetAllLoop(_, _, _, _, _)
SetAllLoop(infos, k, value, wr, acc) ==
  IF k > Len(infos) THEN acc
  ELSE IF infos[k] = None THEN [acc EXCEPT !.raised = TRUE]
  ELSE
    LET monitor == infos[k][1]
    IN  IF ~monitor.supports_brightness
        THEN SetAllLoop(infos, k + 1, value, wr, acc)
        ELSE
          LET res == set_brightness(
                       monitor.id, value,
                       HwAt(wr, _apply_monitor_swap(monitor.index)))
              next ==
                [acc EXCEPT
                   !.lum = Written(@, res),
                   !.attempted = @ \cup {monitor.id},
                   !.hwFail = @ \/ AnyFail(res.log),
                   !.wrote = IF res.ret THEN @ \cup {monitor.id} ELSE @,
                   !.cfg = IF res.ret
                           THEN config_set_monitor_brightness(
                                  @, monitor.id, value)
                           ELSE @,
                   !.saves = IF res.ret THEN @ + 1 ELSE @]
          IN  SetAllLoop(infos, k + 1, value, wr, next)

\* The per_monitor entry of every listed monitor set to value, written or not.
RECURSIVE SaveEvery(_, _, _, _)
SaveEvery(infos, k, value, cfg) ==
  IF k > Len(infos) THEN cfg
  ELSE IF infos[k] = None THEN SaveEvery(infos, k + 1, value, cfg)
  ELSE SaveEvery(infos, k + 1, value,
                 config_set_monitor_brightness(cfg, infos[k][1].id, value))

\* _set_all_brightness_internal recording the value for every listed monitor,
\* the ones without brightness support included.
SetAllSavingSkipped(value, save_global, hws, wr, acc) ==
  LET monitors_ == get_all_monitors_info(hws)
      done == SetAllLoop(monitors_, 1, value, wr,
                         [acc EXCEPT !.hwFail = @ \/ ProbeFail(hws)])
  IN  [done EXCEPT !.cfg = SaveEvery(monitors_, 1, value, @),
                   !.saves = @ + 1]

\* hws is what the capability probes of get_monitors() meet, wr the writes.
_set_all_brightness_internal(value, save_global, hws, wr, acc) ==
  LET monitors_ == get_all_monitors_info(hws)
      done == SetAllLoop(monitors_, 1, value, wr,
                         [acc EXCEPT !.hwFail = @ \/ ProbeFail(hws)])
  IN  IF done.raised \/ ~save_global THEN done
      ELSE [done EXCEPT !.cfg = config_set_global_brightness(@, value),
                        !.saves = @ + 1]

\* toggle_sync_mode propagating whatever enabled is.
ToggleAlwaysApplying(enabled, hws, wr) ==
  LET acc == Start(config_set(config, "sync_mode", enabled), 1)
  IN  _set_all_brightness_internal(
        config_global_brightness(acc.cfg), FALSE, hws, wr, acc)

\* toggle_sync_mode that only stores the flag.
ToggleFlagOnly(enabled, hws, wr) ==
  Start(config_set(config, "sync_mode", enabled), 1)

toggle_sync_mode(enabled, hws, wr) ==
  LET acc == Start(config_set(config, "sync_mode", enabled), 1)
  IN  IF enabled
      THEN _set_all_brightness_internal(
             config_global_brightness(acc.cfg), FALSE, hws, wr, acc)
      ELSE acc

set_global_brightness(value, hws, wr) ==
  LET v == clamp(value)
      acc == Start(config_set_global_brightness(config, v), 1)
  IN  _set_all_brightness_internal(v, FALSE, hws, wr, acc)

\* set_monitor_brightness that stores the value whatever the Backend returned.
SetMonitorAlwaysSaving(monitor_id, value, hw) ==
  LET v == clamp(value)
      res == set_brightness(monitor_id, v, hw)
      acc == Start(config, 0)
  IN  [acc |-> [acc EXCEPT
                  !.lum = Written(@, res),
                  !.attempted = {monitor_id},
                  !.hwFail = AnyFail(res.log),
                  !.wrote = IF res.ret THEN {monitor_id} ELSE {},
                  !.cfg = config_set_monitor_brightness(@, monitor_id, v),
                  !.saves = 1],
       log |-> res.log]

\* Also returns the Backend call's protocol log.
set_monitor_brightness(monitor_id, value, hw) ==
  LET v == clamp(value)
      res == set_brightness(monitor_id, v, hw)
      acc == Start(config, 0)
  IN  [acc |-> [acc EXCEPT
                  !.lum = Written(@, res),
                  !.attempted = {monitor_id},
                  !.hwFail = AnyFail(res.log),
                  !.wrote = IF res.ret THEN {monitor_id} ELSE {},
                  !.cfg = IF res.ret
                          THEN config_set_monitor_brightness(@, monitor_id, v)
                          ELSE @,
                  !.saves = IF res.ret THEN 1 ELSE 0],
       log |-> res.log]

\* The loop testing the saved value for truth instead of "is not None": a
\* stored 0 is taken for a missing entry.
RECURSIVE RestoreLoopTruthy(_, _, _, _)
RestoreLoopTruthy(infos, k, wr, acc) ==
  IF k > Len(infos) THEN acc
  ELSE IF infos[k] = None THEN [acc EXCEPT !.raised = TRUE]
  ELSE
    LET monitor == infos[k][1]
        saved_brightness == config_get_monitor_brightness(acc.cfg, monitor.id)
    IN  IF ~monitor.supports_brightness \/ saved_brightness = None
           \/ saved_brightness = Some(0)
        THEN RestoreLoopTruthy(infos, k + 1, wr, acc)
        ELSE
          LET res == set_brightness(
                       monitor.id, saved_brightness[1],
                       HwAt(wr, _apply_monitor_swap(monitor.index)))
              next ==
                [acc EXCEPT
                   !.lum = Written(@, res),
                   !.attempted = @ \cup {monitor.id},
                   !.hwFail = @ \/ AnyFail(res.log),
                   !.wrote = IF res.ret THEN @ \cup {monitor.id} ELSE @]
          IN  RestoreLoopTruthy(infos, k + 1, wr, next)

\* for monitor in monitors: ... of restore_last_brightness in individual
\* mode; the result of set_brightness is not looked at.
RECURSIVE RestoreLoop(_, _, _, _)
RestoreLoop(infos, k, wr, acc) ==
  IF k > Len(infos) THEN acc
  ELSE IF infos[k] = None THEN [acc EXCEPT !.raised = TRUE]
  ELSE
    LET monitor == infos[k][1]
        saved_brightness == config_get_monitor_brightness(acc.cfg, monitor.id)
    IN  IF ~monitor.supports_brightness \/ saved_brightness = None
        THEN RestoreLoop(infos, k + 1, wr, acc)
        ELSE
          LET res == set_brightness(
                       monitor.id, saved_brightness[1],
                       HwAt(wr, _apply_monitor_swap(monitor.index)))
              next ==
                [acc EXCEPT
                   !.lum = Written(@, res),
                   !.attempted = @ \cup {monitor.id},
                   !.hwFail = @ \/ AnyFail(res.log),
                   !.wrote = IF res.ret THEN @ \cup {monitor.id} ELSE @]
          IN  RestoreLoop(infos, k + 1, wr, next)

\* restore_last_brightness propagating with save_global=True.
RestoreSavingGlobal(firstFail, hws, wr) ==
  LET monitors_ == get_all_monitors_info(hws)
      acc == Start(config, 0)
  IN  IF config_sync_mode(config)
      THEN _set_all_brightness_internal(
             config_global_brightness(config), TRUE, hws, wr,
             [acc EXCEPT !.hwFail = firstFail])
      ELSE RestoreLoop(monitors_, 1, wr,
                       [acc EXCEPT !.hwFail = ProbeFail(hws)])

\* hws is what the capability probes of get_monitors() meet. In sync mode the
\* list fetched by the operation itself is not used and
\* _set_all_brightness_internal fetches it again: firstFail says whether a
\* probe of the unused round raised, hws is the pattern of the second round.
restore_last_brightness(firstFail, hws, wr) ==
  LET monitors_ == get_all_monitors_info(hws)
      acc == Start(config, 0)
  IN  IF config_sync_mode(config)
      THEN _set_all_brightness_internal(
             config_global_brightness(config), FALSE, hws, wr,
             [acc EXCEPT !.hwFail = firstFail])
      ELSE RestoreLoop(monitors_, 1, wr,
                       [acc EXCEPT !.hwFail = ProbeFail(hws)])

-----------------------------------------------------------------------------
(* The brightness scenarios: the program is constructed on some hardware   *)
(* with no settings file; hardware changes reach the Backend through the   *)
(* display-change listener; the Controller's and the Backend's brightness  *)
(* operations are called one at a time, each returning before the next.    *)

\* The enumerations that differ for brightness control: the two lengths.
CtlHwStates ==
  {h \in HwStates(MaxCtl) : h.ddc >= 0 /\ h.sbc >= 0 /\ h.primary = 0}

\* The brightness the displays of hardware h can show; a position without a
\* display reads 0.
LumStates(h) ==
  {[k \in PhysIdx |-> IF k \in DOMAIN shown THEN shown[k] ELSE 0] :
     shown \in [0 .. (Max(h.ddc, h.sbc) - 1) -> Levels]}

\* Monitor ids callers pass: those of the logical indices 0 .. MaxCtl.
CtlIds == {MonitorId(i) : i \in 0 .. MaxCtl}

Idle == last = NoCall

\* The end of a Controller operation: its effects and its record.
Commit(acc, rec) ==
  /\ config' = acc.cfg
  /\ lum' = acc.lum
  /\ save_timer' = IF acc.saves > 0 THEN "armed" ELSE save_timer
  /\ last' = [rec EXCEPT !.raised = acc.raised,
                         !.hwFail = acc.hwFail,
                         !.attempted = acc.attempted,
                         !.wrote = acc.wrote,
                         !.saves = acc.saves]
  /\ UNCHANGED <<hwVars, backendVars, config_file, threadVars>>

\* The caller has the result; the next operation can be called.
Return ==
  /\ ~Idle
  /\ last' = NoCall
  /\ UNCHANGED <<hwVars, lum, backendVars, cfgVars, threadVars>>

\* The displays after the hardware has become h: a position that had a
\* display and still has one shows what it showed, a new one shows any level.
LumAfter(h) ==
  {l \in LumStates(h) :
     \A k \in PhysIdx :
       (k < Max(hwDdc, hwSbc) /\ k < Max(h.ddc, h.sbc)) => (l[k] = lum[k])}

\* MonitorManager._wnd_proc on WM_DISPLAYCHANGE: the hardware is h now, the
\* Backend refreshes, the callback rebuilds the menu.
WndProc ==
  /\ Idle
  /\ \E h \in CtlHwStates :
       /\ Refresh(h)
       /\ lum' \in LumAfter(h)
  /\ last' = [NoCall EXCEPT !.op = "_wnd_proc"]
  /\ UNCHANGED <<cfgVars, threadVars>>

\* Backend.get_brightness(monitor_id) called directly, the protocols doing hw.
GetBrightnessCall(monitor_id, hw) ==
  LET res == get_brightness(monitor_id, hw)
  IN  /\ last' = [NoCall EXCEPT !.op = "get_brightness",
                                !.arg = Some(monitor_id),
                                !.hw = Some(hw),
                                !.ret = res.ret,
                                !.hwFail = AnyFail(res.log),
                                !.log = res.log]
      /\ UNCHANGED <<hwVars, lum, backendVars, cfgVars, threadVars>>

GetBrightness ==
  /\ Idle
  /\ \E monitor_id \in CtlIds : \E hw \in OutcomesFor(monitor_id) :
       GetBrightnessCall(monitor_id, hw)

\* Backend.set_brightness(monitor_id, value) called directly.
SetBrightnessCall(monitor_id, value, hw) ==
  LET res == set_brightness(monitor_id, value, hw)
  IN  /\ lum' = Written(lum, res)
      /\ last' = [NoCall EXCEPT !.op = "set_brightness",
                                !.arg = Some(monitor_id),
                                !.value = value,
                                !.hw = Some(hw),
                                !.ret = Some(res.ret),
                                !.hwFail = AnyFail(res.log),
                                !.log = res.log]
      /\ UNCHANGED <<hwVars, backendVars, cfgVars, threadVars>>

SetBrightness ==
  /\ Idle
  /\ \E monitor_id \in CtlIds, value \in BrightnessInputs :
       \E hw \in OutcomesFor(monitor_id) :
         SetBrightnessCall(monitor_id, value, hw)

\* Id strings no monitor record carries: "MONITOR", "MONITOR_", "MONITOR_abc",
\* "FOO_1", "MONITOR_1_x" and "MONITOR_-1".
OtherIds ==
  {<<"MONITOR">>, <<"MONITOR", "">>, <<"MONITOR", "abc">>, <<"FOO", "1">>,
   <<"MONITOR", "1", "x">>, MonitorId(-1)}

\* The Backend calls on such ids.
GetBrightnessOtherId ==
  /\ Idle
  /\ \E monitor_id \in OtherIds : \E hw \in OutcomesFor(monitor_id) :
       GetBrightnessCall(monitor_id, hw)

SetBrightnessOtherId ==
  /\ Idle
  /\ \E monitor_id \in OtherIds, value \in BrightnessInputs :
       \E hw \in OutcomesFor(monitor_id) :
         SetBrightnessCall(monitor_id, value, hw)

ToggleSyncMode ==
  /\ Idle
  /\ \E enabled \in BOOLEAN, hws \in CtlPatterns : \E wr \in CtlWrites(hws) :
       /\ enabled \/ (hws = NoPattern /\ wr = NoPattern)
       /\ \E acc \in {toggle_sync_mode(enabled, hws, wr)} :
            Commit(acc, [NoCall EXCEPT !.op = "toggle_sync_mode",
                                       !.arg = Some(enabled)])

SetGlobalBrightness ==
  /\ Idle
  /\ \E value \in BrightnessInputs, hws \in CtlPatterns :
       \E wr \in CtlWrites(hws) :
       \E acc \in {set_global_brightness(value, hws, wr)} :
         Commit(acc, [NoCall EXCEPT !.op = "set_global_brightness",
                                    !.value = value])

SetMonitorBrightness ==
  /\ Idle
  /\ \E monitor_id \in CtlIds, value \in BrightnessInputs :
       \E hw \in OutcomesFor(monitor_id) :
       \E r \in {set_monitor_brightness(monitor_id, value, hw)} :
           Commit(r.acc,
                  [NoCall EXCEPT !.op = "set_monitor_brightness",
                                 !.arg = Some(monitor_id),
                                 !.value = value,
                                 !.hw = Some(hw),
                                 !.log = r.log])

GetMonitorBrightness ==
  /\ Idle
  /\ \E monitor_id \in CtlIds : \E hw \in OutcomesFor(monitor_id) :
       LET res == get_brightness(monitor_id, hw)
       IN  last' = [NoCall EXCEPT !.op = "get_monitor_brightness",
                                 !.arg = Some(monitor_id),
                                 !.hw = Some(hw),
                                 !.ret = res.ret,
                                 !.hwFail = AnyFail(res.log),
                                 !.log = res.log]
  /\ UNCHANGED <<hwVars, lum, backendVars, cfgVars, threadVars>>

RestoreLastBrightness ==
  /\ Idle
  /\ \E firstFail \in {ProbeFail(hws0) : hws0 \in CtlPatterns} :
     \E hws \in CtlPatterns : \E wr \in CtlWrites(hws) :
       /\ config_sync_mode(config) \/ (firstFail = ProbeFail(hws))
       /\ \E acc \in {restore_last_brightness(firstFail, hws, wr)} :
            Commit(acc, [NoCall EXCEPT !.op = "restore_last_brightness"])

Init ==
  /\ \E h \in CtlHwStates :
       /\ InitHardware(h)
       /\ lum \in LumStates(h)
  /\ config = _create_default_config
  /\ save_timer = "none"
  /\ config_file = None
  /\ last = NoCall
  /\ ThreadsInit

Next ==
  \/ WndProc
  \/ GetBrightness
  \/ SetBrightness
  \/ ToggleSyncMode
  \/ SetGlobalBrightness
  \/ SetMonitorBrightness
  \/ GetMonitorBrightness
  \/ RestoreLastBrightness
  \/ Return

Spec == Init /\ [][Next]_vars

\* The Backend on its own: it holds no reference to the config or to the
\* Controller, so its brightness calls are also examined without them.
NextBackend ==
  \/ WndProc
  \/ GetBrightness
  \/ SetBrightness
  \/ GetBrightnessOtherId
  \/ SetBrightnessOtherId
  \/ Return

SpecBackend == Init /\ [][NextBackend]_vars

\* The per-monitor operations of the Controller (individual mode).
NextMonitor ==
  \/ WndProc
  \/ SetMonitorBrightness
  \/ GetMonitorBrightness
  \/ Return

SpecMonitor == Init /\ [][NextMonitor]_vars

-----------------------------------------------------------------------------
(* Claims on the enumeration scenarios *)

\* The record a logical index gets when every protocol answers.
InfoOf(index) == get_monitor_info(index, [ddc |-> TRUE, sbc |-> TRUE])

\* C1: for every pair of enumeration lengths and every logical index i with
\* 0 <= i < get_monitor_count(), get_monitor_info(i) returns a record (not
\* None) whose index is i and whose id is MONITOR_<i>.
C1_InfoForEveryCountedIndex ==
  (/\ last.op = "get_monitor_info"
   /\ last.arg # None
   /\ last.arg[1] >= 0
   /\ last.arg[1] < get_monitor_count)
  => /\ last.ret # None
     /\ last.ret[1].index = last.arg[1]
     /\ last.ret[1].id = MonitorId(last.arg[1])

\* C2: a record of get_monitor_info(i) is primary iff the swapped index of i
\* equals the detected primary index; among the records of the logical
\* indices in [0, monitor_count) at most one is primary, and exactly one is
\* whenever the detected primary index lies inside the DDC/CI list.
C2_PrimaryFlag ==
  LET recs == {i \in 0 .. (get_monitor_count - 1) : InfoOf(i) # None}
      prim == {i \in recs : InfoOf(i)[1].is_primary}
  IN  /\ \A i \in recs :
           InfoOf(i)[1].is_primary
             <=> (_apply_monitor_swap(i) = primary_monitor_index)
      /\ Cardinality(prim) <= 1
      /\ (primary_monitor_index >= 0
            /\ primary_monitor_index < Len(monitors))
           => Cardinality(prim) = 1

\* C3: the index mapping is an involution on the swapped pair and the
\* identity elsewhere: applied twice to 0 and to 1 it returns the original
\* index, applied once to an index >= 2 it returns that index.
C3_SwapInvolution ==
  (last.op = "_apply_monitor_swap")
  => LET i == last.arg[1]
         r == last.ret[1]
     IN  /\ (i \in {0, 1}) => (r # i /\ _apply_monitor_swap(r) = i)
         /\ (i >= 2) => (r = i)

C3_Witness ==
  /\ last.op = "_apply_monitor_swap"
  /\ last.arg = Some(1)
  /\ last.ret = Some(0)

\* C8: refresh is idempotent on the monitor list: a refresh that finds the
\* hardware as the previous refresh found it leaves the list returned by
\* get_all_monitors_info as it was, under every pattern of protocol
\* responsiveness.
C8_RefreshIdempotent ==
  [][(last'.op = "refresh_monitors" /\ hwVars' = hwVars)
       => \A hws \in [PhysIdx -> Outcomes] :
            get_all_monitors_info(hws)' = get_all_monitors_info(hws)]_vars

C8_Witness ==
  /\ last.op = "refresh_monitors"
  /\ last.arg = Some(TRUE)
  /\ Len(monitors) >= 2
  /\ Len(sbc_displays) >= 1

-----------------------------------------------------------------------------
(* Claims on the brightness scenarios *)

\* The physical position a monitor id of the brightness scenarios addresses.
PhysOf(monitor_id) == _apply_monitor_swap(_id_to_index(monitor_id)[1])

\* The value of [0, 100] nearest to v.
Clamped(v) == IF v < 0 THEN 0 ELSE IF v > 100 THEN 100 ELSE v

\* C4: Backend set_brightness and Controller set_global_brightness clamp
\* their input v to [0, 100] before use. After set_brightness(id, v) every
\* protocol call of the log was handed Clamped(v) and, on success, the display
\* shows Clamped(v). After set_global_brightness(v) the stored
\* global_brightness is Clamped(v), and every monitor written successfully
\* shows Clamped(v) and has Clamped(v) as its per_monitor entry. -10 gives 0
\* and 150 gives 100.
C4_ClampBeforeUse ==
  /\ (last.op = "set_brightness") =>
       /\ \A j \in 1 .. Len(last.log) :
            last.log[j].value = Clamped(last.value)
       /\ (last.ret = Some(TRUE)) =>
            lum[PhysOf(last.arg[1])] = Clamped(last.value)
  /\ (last.op = "set_global_brightness") =>
       /\ config.global_brightness = Clamped(last.value)
       /\ \A id \in last.wrote :
            /\ config.per_monitor[id] = Clamped(last.value)
            /\ lum[PhysOf(id)] = Clamped(last.value)
  /\ (last.op \in {"set_brightness", "set_global_brightness"}) =>
       /\ (last.value = -10) => (Clamped(last.value) = 0)
       /\ (last.value = 150) => (Clamped(last.value) = 100)

C4_Witness ==
  /\ last.op = "set_global_brightness"
  /\ last.value = -10
  /\ Cardinality(last.wrote) = 2
  /\ config.global_brightness = 0
  /\ lum[0] = 0 /\ lum[1] = 0

\* C5: right after toggle_sync_mode(true) has returned, no protocol call
\* having raised during it, every monitor whose record says
\* supports_brightness shows the stored global_brightness.
C5_SyncAppliesGlobal ==
  (/\ last.op = "toggle_sync_mode"
   /\ last.arg = Some(TRUE)
   /\ ~last.raised
   /\ ~last.hwFail)
  => /\ config_sync_mode(config)
     /\ \A i \in 0 .. (Len(monitors) - 1) :
          (InfoOf(i) # None /\ InfoOf(i)[1].supports_brightness)
            => lum[_apply_monitor_swap(i)] = config_global_brightness(config)

C5_Witness ==
  /\ last.op = "toggle_sync_mode"
  /\ last.arg = Some(TRUE)
  /\ ~last.raised
  /\ ~last.hwFail
  /\ last.wrote = {MonitorId(0), MonitorId(1)}
  /\ config_global_brightness(config) = 100
  /\ lum[0] = 100 /\ lum[1] = 100

\* C6: for a physical index k inside both lists, when DDC/CI raises at k and
\* the platform protocol answers, get_brightness and set_brightness on the id
\* that maps to k succeed through the platform protocol, and the call's log
\* is the failed DDC/CI attempt followed by the platform attempt.
C6_FallbackAfterDdc ==
  (/\ last.op \in {"get_brightness", "set_brightness"}
   /\ _id_to_index(last.arg[1]) # None
   /\ PhysOf(last.arg[1]) < Len(monitors)
   /\ PhysOf(last.arg[1]) < Len(sbc_displays)
   /\ last.hw = Some([ddc |-> FALSE, sbc |-> TRUE]))
  => LET k == PhysOf(last.arg[1])
         v == IF last.op = "get_brightness" THEN 0 ELSE Clamped(last.value)
     IN  /\ last.log = <<Attempt("ddc", k, v, FALSE),
                         Attempt("sbc", k, v, TRUE)>>
         /\ (last.op = "get_brightness") => (last.ret = Some(lum[k]))
         /\ (last.op = "set_brightness") =>
              (last.ret = Some(TRUE) /\ lum[k] = v)

C6_Witness ==
  /\ last.op = "set_brightness"
  /\ last.arg = Some(MonitorId(0))
  /\ last.hw = Some([ddc |-> FALSE, sbc |-> TRUE])
  /\ last.ret = Some(TRUE)
  /\ Len(last.log) = 2
  /\ last.value = 150
  /\ lum[1] = 100

\* C7 as stated: in every get_brightness or set_brightness call the platform
\* protocol is consulted only after a DDC/CI attempt for the same physical
\* index that failed in the same call, and never after a DDC/CI success.
C7_FallbackOnlyAfterDdcFailure ==
  (last.op \in {"get_brightness", "set_brightness"}) =>
    \A j \in 1 .. Len(last.log) :
      (last.log[j].proto = "sbc") =>
        /\ \E i \in 1 .. (j - 1) :
             /\ last.log[i].proto = "ddc"
             /\ last.log[i].idx = last.log[j].idx
             /\ ~last.log[i].ok
        /\ \A i \in 1 .. Len(last.log) :
             (last.log[i].proto = "ddc") => ~last.log[i].ok

\* C7, amended: in every get_brightness or set_brightness call the platform
\* protocol is consulted only after a DDC/CI attempt for the same physical
\* index that failed in the same call, or, with no DDC/CI attempt made, when
\* the physical index lies outside the DDC/CI list; it is never consulted
\* after a DDC/CI success.
C7_FallbackAfterFailureOrOutsideDdc ==
  (last.op \in {"get_brightness", "set_brightness"}) =>
    \A j \in 1 .. Len(last.log) :
      (last.log[j].proto = "sbc") =>
        /\ \/ \E i \in 1 .. (j - 1) :
                /\ last.log[i].proto = "ddc"
                /\ last.log[i].idx = last.log[j].idx
                /\ ~last.log[i].ok
           \/ /\ last.log[j].idx >= Len(monitors)
              /\ \A i \in 1 .. Len(last.log) : last.log[i].proto # "ddc"
        /\ \A i \in 1 .. Len(last.log) :
             (last.log[i].proto = "ddc") => ~last.log[i].ok

C7_Witness ==
  /\ last.op = "get_brightness"
  /\ Len(last.log) = 1
  /\ last.log[1].proto = "sbc"
  /\ last.log[1].idx >= Len(monitors)
  /\ last.ret # None

\* C9: when set_global_brightness(v) has met a failing write for a capable
\* monitor, the stored global_brightness is Clamped(v), the per_monitor entry
\* of every monitor whose write failed is what it was before the call (absent
\* if it was absent), and the call has not raised.
C9_FailedWriteKeepsEntry ==
  [][(/\ last'.op = "set_global_brightness"
      /\ last'.attempted \ last'.wrote # {})
     => /\ config_global_brightness(config') = Clamped(last'.value)
        /\ \A id \in last'.attempted \ last'.wrote :
             config_get_monitor_brightness(config', id)
               = config_get_monitor_brightness(config, id)
        /\ ~last'.raised]_vars

C9_Witness ==
  /\ last.op = "set_global_brightness"
  /\ last.value = -10
  /\ last.wrote = {MonitorId(0)}
  /\ last.attempted = {MonitorId(0), MonitorId(1)}
  /\ config_global_brightness(config) = 0
  /\ config_get_monitor_brightness(config, MonitorId(0)) = Some(0)
  /\ config_get_monitor_brightness(config, MonitorId(1)) = Some(100)

\* C10: set_monitor_brightness(id, v) writes to the display of id only; when
\* the Backend returned True the per_monitor entry of id is Clamped(v); when
\* it returned False the whole config is as before and no save is scheduled.
C10_SingleWritePersistOnSuccess ==
  [][(last'.op = "set_monitor_brightness")
     => LET id == last'.arg[1]
        IN  /\ last'.attempted \subseteq {id}
            /\ \A j \in 1 .. Len(last'.log) :
                 last'.log[j].idx = PhysOf(id)
            /\ \A k \in PhysIdx :
                 (_id_to_index(id) = None \/ k # PhysOf(id))
                   => lum'[k] = lum[k]
            /\ (last'.wrote = {id}) =>
                 /\ config_get_monitor_brightness(config', id)
                      = Some(Clamped(last'.value))
                 /\ lum'[PhysOf(id)] = Clamped(last'.value)
            /\ (last'.wrote = {}) =>
                 /\ config' = config
                 /\ save_timer' = save_timer
                 /\ last'.saves = 0]_vars

C10_Witness ==
  /\ last.op = "set_monitor_brightness"
  /\ last.arg = Some(MonitorId(1))
  /\ last.wrote = {}
  /\ Len(last.log) = 2
  /\ save_timer = "none"
  /\ config = _create_default_config

\* The public operations of the Controller.
ControllerOps ==
  {"toggle_sync_mode", "set_global_brightness", "set_monitor_brightness",
   "get_monitor_brightness", "restore_last_brightness"}

\* C11: every public Controller operation returns without raising, for every
\* pair of enumeration lengths and every pattern of protocol failures.
C11_ControllerNeverRaises ==
  (last.op \in ControllerOps) => ~last.raised

\* The ids of the format MONITOR_<logical_index> whose display is inside the
\* current enumeration.
IdsInRange ==
  {MonitorId(i) : i \in {j \in 0 .. MaxIndex :
                           _apply_monitor_swap(j) < get_monitor_count}}

\* C12: Backend get_brightness and set_brightness never raise, for every id
\* string and every pattern of protocol failures: get_brightness returns a
\* brightness or None, set_brightness True or False; and for an id that is
\* malformed or out of range the result is None / False and no protocol call
\* is made.
C12_BackendTotalOnIds ==
  (last.op \in {"get_brightness", "set_brightness"}) =>
    /\ ~last.raised
    /\ (last.op = "get_brightness") =>
         (last.ret = None \/ (Len(last.ret) = 1 /\ last.ret[1] \in 0 .. 100))
    /\ (last.op = "set_brightness") =>
         (last.ret \in {Some(TRUE), Some(FALSE)})
    /\ (last.arg[1] \notin IdsInRange) =>
         /\ last.log = <<>>
         /\ last.ret \in {None, Some(FALSE)}

-----------------------------------------------------------------------------
(* Concurrent callers of the Controller. A call takes self._lock on entry   *)
(* (with self._lock:), runs the statements before its loop, then one loop   *)
(* iteration at a time, and gives the lock back on exit. The sync_mode      *)
(* property and the tray's auto-start handler take no lock. Every protocol  *)
(* answers in these scenarios.                                              *)

\* Every protocol answers at every position.
AllAnswer == [k \in PhysIdx |-> [ddc |-> TRUE, sbc |-> TRUE]]

\* Values and ids the concurrent callers pass.
LockValues == {100}
LockIds == {MonitorId(0)}

\* The calls that take the lock, with their arguments.
LockedCalls ==
  {[NoCtlCall EXCEPT !.op = "toggle_sync_mode", !.arg = Some(e)] :
     e \in BOOLEAN}
  \cup {[NoCtlCall EXCEPT !.op = "set_global_brightness", !.value = v] :
          v \in LockValues}
  \cup {[NoCtlCall EXCEPT !.op = "set_monitor_brightness",
                          !.arg = Some(id), !.value = v] :
          id \in LockIds, v \in LockValues}
  \cup {[NoCtlCall EXCEPT !.op = "get_monitor_brightness", !.arg = Some(id)] :
          id \in LockIds}
  \cup {[NoCtlCall EXCEPT !.op = "restore_last_brightness"]}

Stepped(t, op, kind) ==
  [thread |-> Some(t), op |-> op, kind |-> kind, locked |-> _lock = Some(t)]

\* The effects of a group of statements of a call.
Apply(acc) ==
  /\ config' = acc.cfg
  /\ lum' = acc.lum
  /\ save_timer' = IF acc.saves > 0 THEN "armed" ELSE save_timer

\* with self._lock: a thread that is in no call enters one; it gets past the
\* with statement only when the lock is free.
Enter(t) ==
  /\ calls[t].op = "none"
  /\ _lock = None
  /\ \E c \in LockedCalls :
       /\ calls' = [calls EXCEPT ![t] = c]
       /\ step' = Stepped(t, c.op, "acquire")
  /\ _lock' = Some(t)
  /\ UNCHANGED <<restVars, mgrVars, hwVars, lum, backendVars, cfgVars, last>>

\* The statements of a call up to its loop over get_monitors(), or the whole
\* body of a call without a loop. k = 1 afterwards; the loop, if any, is over
\* infos.
Begin(t) ==
  /\ calls[t].op # "none"
  /\ calls[t].k = 0
  /\ LET c == calls[t]
         v == clamp(c.value)
         infos == get_all_monitors_info(AllAnswer)
     IN  /\ CASE c.op = "toggle_sync_mode" ->
                  /\ Apply(Start(config_set(config, "sync_mode", c.arg[1]), 1))
                  /\ calls' = [calls EXCEPT
                       ![t].k = 1,
                       ![t].value = config_global_brightness(config),
                       ![t].infos = IF c.arg[1] THEN infos ELSE <<>>]
              [] c.op = "set_global_brightness" ->
                  /\ Apply(Start(config_set_global_brightness(config, v), 1))
                  /\ calls' = [calls EXCEPT ![t].k = 1, ![t].value = v,
                                            ![t].infos = infos]
              [] c.op = "restore_last_brightness" ->
                  /\ Apply(Start(config, 0))
                  /\ calls' = [calls EXCEPT
                       ![t].k = 1,
                       ![t].arg = Some(config_sync_mode(config)),
                       ![t].value = config_global_brightness(config),
                       ![t].infos = infos]
              [] c.op = "set_monitor_brightness" ->
                  /\ Apply(set_monitor_brightness(
                             c.arg[1], c.value, AllAnswer[0]).acc)
                  /\ calls' = [calls EXCEPT ![t].k = 1]
              [] c.op = "get_monitor_brightness" ->
                  /\ Apply(Start(config, 0))
                  /\ calls' = [calls EXCEPT ![t].k = 1]
         /\ step' = Stepped(t, c.op, "body")
  /\ UNCHANGED <<restVars, mgrVars, hwVars, backendVars, config_file, last, _lock>>

\* One iteration of the loop of a call, for the monitor at list position k.
Iterate(t) ==
  /\ calls[t].op # "none"
  /\ calls[t].k >= 1
  /\ calls[t].k <= Len(calls[t].infos)
  /\ LET c == calls[t]
         one == <<c.infos[c.k]>>
     IN  /\ IF c.op = "restore_last_brightness" /\ c.arg = Some(FALSE)
            THEN Apply(RestoreLoop(one, 1, AllAnswer, Start(config, 0)))
            ELSE Apply(SetAllLoop(one, 1, c.value, AllAnswer,
                                  Start(config, 0)))
         /\ step' = Stepped(t, c.op, "body")
  /\ calls' = [calls EXCEPT ![t].k = @ + 1]
  /\ UNCHANGED <<restVars, mgrVars, hwVars, backendVars, config_file, last, _lock>>

\* The end of the with block: the lock is given back and the call returns.
Exit(t) ==
  /\ calls[t].op # "none"
  /\ calls[t].k >= 1
  /\ calls[t].k > Len(calls[t].infos)
  /\ _lock' = IF _lock = Some(t) THEN None ELSE _lock
  /\ calls' = [calls EXCEPT ![t] = NoCtlCall]
  /\ step' = Stepped(t, calls[t].op, "release")
  /\ UNCHANGED <<restVars, mgrVars, hwVars, lum, backendVars, cfgVars, last>>

\* BrightnessController.sync_mode: return self.config.sync_mode
ReadSyncMode(t) ==
  /\ calls[t].op = "none"
  /\ step' = [Stepped(t, "sync_mode", "body") EXCEPT !.locked = FALSE]
  /\ UNCHANGED <<restVars, mgrVars, hwVars, lum, backendVars, cfgVars, last, _lock, calls>>

\* TrayIcon.on_toggle_autostart: the registry says current, the change of
\* the registry succeeds or not; on success the setting is stored.
OnToggleAutostart(t) ==
  /\ calls[t].op = "none"
  /\ \E current \in BOOLEAN, success \in BOOLEAN :
       /\ config' = IF success
                    THEN config_set(config, "auto_start", ~current)
                    ELSE config
       /\ save_timer' = IF success THEN "armed" ELSE save_timer
  /\ step' = [Stepped(t, "on_toggle_autostart", "handler")
                EXCEPT !.locked = FALSE]
  /\ UNCHANGED <<restVars, mgrVars, hwVars, lum, backendVars, config_file, last, _lock, calls>>

InitLock ==
  /\ InitHardware([ddc |-> MaxCtl, sbc |-> MaxCtl, primary |-> 0])
  /\ lum = [k \in PhysIdx |-> IF k < MaxCtl THEN DEFAULT_GLOBAL_BRIGHTNESS
                              ELSE 0]
  /\ config = _create_default_config
  /\ save_timer = "none"
  /\ config_file = None
  /\ last = NoCall
  /\ ThreadsInit

NextLock ==
  \E t \in Callers :
    \/ Enter(t)
    \/ Begin(t)
    \/ Iterate(t)
    \/ Exit(t)
    \/ ReadSyncMode(t)
    \/ OnToggleAutostart(t)

SpecLock == InitLock /\ [][NextLock]_vars

\* The public operations of the Controller that read or change its state.
ControllerPublic == ControllerOps \cup {"sync_mode"}

\* C13: every public Controller operation that reads or mutates state holds
\* the Controller lock while its statements run, so no statement of one
\* Controller call (a read of sync_mode included) runs while another
\* Controller call is between its first and its last statement.
C13_CallsNeverInterleave ==
  (step.op \in ControllerPublic /\ step.kind = "body") =>
    /\ step.locked
    /\ \A u \in Callers :
         (Some(u) # step.thread) => (calls[u].op = "none")

\* C20: every change of the settings object is made by a statement of a
\* Controller operation whose thread holds the Controller lock; nothing else
\* changes the settings.
C20_SettingsChangeUnderLock ==
  [][(config' # config) =>
       \E t \in Callers :
         /\ _lock = Some(t)
         /\ calls[t].op \in ControllerOps
         /\ step'.thread = Some(t)]_vars

-----------------------------------------------------------------------------
(* MonitorManager: the display change listener.

   listen_display_change starts a thread running _message_pump; pump[i] says
   where thread i is in it:
     "unborn"      not started
     "register"    started, before RegisterClass
     "create"      class registered, before CreateWindow
     "loop"        at the test of while self._running
     "peek"        inside the loop, before PeekMessage
     "handle1", "handle2"
                   inside _wnd_proc for a WM_DISPLAYCHANGE, before its first
                   and before its second call
     "destroy"     after the loop, before DestroyWindow
     "unregister"  before UnregisterClass
     "done"        returned
   The window class has one name for the whole process, so RegisterClass
   raises while another thread has it registered. The window of thread i
   exists from CreateWindow to DestroyWindow; its handle is i. *)

\* The order of the two calls _wnd_proc makes for a WM_DISPLAYCHANGE, the
\* other way round.
CallbackFirst(k) == IF k = 1 THEN "callback" ELSE "refresh"

\* _wnd_proc on WM_DISPLAYCHANGE: self.refresh_monitors(), then the callback.
WndProcStep(k) == IF k = 1 THEN "refresh" ELSE "callback"

\* A callback exception that leaves _wnd_proc and ends the message loop.
CallbackKills(raised) == IF raised THEN "destroy" ELSE "loop"

\* Where the pump thread is after the callback: the try/except around the
\* callback logs what it raised, _wnd_proc returns 0 and the loop goes on.
AfterCallback(raised) == "loop"

\* A stop that flips the flag instead of clearing it.
StopToggling(running, hwnd) ==
  [running |-> ~running, hwnd |-> hwnd, post |-> hwnd]

\* MonitorManager.stop_listening(): the fields after it and the window it
\* posts WM_QUIT to.
stop_listening(running, hwnd) ==
  [running |-> FALSE, hwnd |-> hwnd, post |-> hwnd]

Alive(i) == pump[i] \notin {"unborn", "done"}

HasWindow(i) ==
  pump[i] \in {"loop", "peek", "handle1", "handle2", "destroy"}

\* PostMessage / the OS delivering m to a queue.
Post(q, m) == Append(q, m)

\* The window stop_listening would post to, if it exists.
QuitTarget == IF _hwnd # None /\ HasWindow(_hwnd[1]) THEN _hwnd ELSE None

\* The queue q without its j-th message.
Without(q, j) == SubSeq(q, 1, j - 1) \o SubSeq(q, j + 1, Len(q))

\* Display changes announced so far: handled, being handled, or waiting.
Noted ==
  Cardinality({j \in DOMAIN handled : handled[j] = "refresh"})
  + Cardinality({i \in PumpThreads : pump[i] = "handle1"})
  + Cardinality({<<i, j>> \in PumpThreads \X (1 .. MaxMsgs) :
                   j \in DOMAIN msgs[i] /\ msgs[i][j] = "WM_DISPLAYCHANGE"})

\* MonitorManager.listen_display_change(callback): the fields are written
\* and a new thread is created and started, whatever the state is.
ListenDisplayChange ==
  /\ \E i \in PumpThreads :
       /\ pump[i] = "unborn"
       /\ \A j \in PumpThreads : (j < i) => (pump[j] # "unborn")
       /\ change_callback' = Some("rebuild_menu")
       /\ _running' = TRUE
       /\ _message_thread' = Some(i)
       /\ pump' = [pump EXCEPT ![i] = "register"]
  /\ last' = [NoCall EXCEPT !.op = "listen_display_change"]
  /\ UNCHANGED <<hwVars, lum, backendVars, cfgVars, lockVars, restVars,
                 _hwnd, wndclass, msgs, handled>>

\* MonitorManager.stop_listening(): the flag is cleared, and WM_QUIT is
\* posted to the window self._hwnd names, if it names one; PostMessage
\* raising is caught. No more than MaxMsgs messages are left waiting.
StopListening ==
  LET res == stop_listening(_running, _hwnd)
  IN  /\ (QuitTarget # None) => (Len(msgs[QuitTarget[1]]) < MaxMsgs)
      /\ _running' = res.running
      /\ _hwnd' = res.hwnd
      /\ msgs' = IF res.post # None /\ HasWindow(res.post[1])
                 THEN [msgs EXCEPT ![res.post[1]] = Post(@, "WM_QUIT")]
                 ELSE msgs
      /\ last' = [NoCall EXCEPT !.op = "stop_listening"]
      /\ UNCHANGED <<hwVars, lum, backendVars, cfgVars, lockVars, restVars,
                     change_callback, _message_thread, pump, wndclass,
                     handled>>

\* The OS announces a display change: WM_DISPLAYCHANGE goes to every window.
\* Room for a WM_QUIT is left in every queue.
Notify ==
  /\ Noted < MaxNotes
  /\ \E i \in PumpThreads : HasWindow(i)
  /\ \A i \in PumpThreads : HasWindow(i) => (Len(msgs[i]) < MaxMsgs - 1)
  /\ msgs' = [i \in PumpThreads |->
                IF HasWindow(i) THEN Post(msgs[i], "WM_DISPLAYCHANGE")
                ELSE msgs[i]]
  /\ UNCHANGED <<hwVars, lum, backendVars, cfgVars, last, lockVars, restVars,
                 _running, _hwnd, change_callback, _message_thread, pump,
                 wndclass, handled>>

\* _message_pump, RegisterClass: on failure the thread logs and returns.
Register(i) ==
  /\ pump[i] = "register"
  /\ IF wndclass = None
     THEN /\ wndclass' = Some(i)
          /\ pump' = [pump EXCEPT ![i] = "create"]
     ELSE /\ pump' = [pump EXCEPT ![i] = "done"]
          /\ UNCHANGED wndclass
  /\ UNCHANGED <<hwVars, lum, backendVars, cfgVars, last, lockVars, restVars,
                 _running, _hwnd, change_callback, _message_thread, msgs,
                 handled>>

\* _message_pump, self._hwnd = CreateWindow(...).
CreateWindow(i) ==
  /\ pump[i] = "create"
  /\ _hwnd' = Some(i)
  /\ pump' = [pump EXCEPT ![i] = "loop"]
  /\ UNCHANGED <<hwVars, lum, backendVars, cfgVars, last, lockVars, restVars,
                 _running, change_callback, _message_thread, wndclass,
                 msgs, handled>>

\* _message_pump, while self._running.
LoopTest(i) ==
  /\ pump[i] = "loop"
  /\ pump' = [pump EXCEPT ![i] = IF _running THEN "peek" ELSE "destroy"]
  /\ UNCHANGED <<hwVars, lum, backendVars, cfgVars, last, lockVars, restVars,
                 _running, _hwnd, change_callback, _message_thread,
                 wndclass, msgs, handled>>

\* _message_pump, PeekMessage with PM_REMOVE and what the loop does with the
\* answer: nothing waiting, sleep and test again; WM_QUIT, break; otherwise
\* DispatchMessage enters _wnd_proc. The message taken is the oldest one, or
\* a WM_DISPLAYCHANGE, which the OS sends rather than posts and may deliver
\* ahead of posted messages.
Peek(i) ==
  /\ pump[i] = "peek"
  /\ IF msgs[i] = <<>>
     THEN /\ pump' = [pump EXCEPT ![i] = "loop"]
          /\ UNCHANGED msgs
     ELSE \E j \in DOMAIN msgs[i] :
            /\ (j = 1) \/ (msgs[i][j] = "WM_DISPLAYCHANGE")
            /\ msgs' = [msgs EXCEPT ![i] = Without(@, j)]
            /\ pump' = [pump EXCEPT
                          ![i] = IF msgs[i][j] = "WM_QUIT" THEN "destroy"
                                 ELSE "handle1"]
  /\ UNCHANGED <<hwVars, lum, backendVars, cfgVars, last, lockVars, restVars,
                 _running, _hwnd, change_callback, _message_thread,
                 wndclass, handled>>

\* The hardware a refresh in the listener scenarios finds: the last display
\* is plugged in or not, and both enumerators list the same displays.
ListenHwStates ==
  {h \in CtlHwStates : h.ddc = h.sbc /\ h.ddc \in {MaxCtl - 1, MaxCtl}}

\* _wnd_proc on WM_DISPLAYCHANGE, one of its two calls.
\*   refresh_monitors(): the Backend enumerates the hardware as it is now;
\*     nothing it calls raises to it.
\*   if self.change_callback: the callback runs and returns or raises; what
\*     it raises is caught and logged.
Handle(i) ==
  \E k \in {1, 2} :
    /\ pump[i] = (IF k = 1 THEN "handle1" ELSE "handle2")
    /\ IF WndProcStep(k) = "refresh"
       THEN /\ \E h \in ListenHwStates :
                 /\ Refresh(h)
                 /\ lum' \in LumAfter(h)
            /\ handled' = Append(handled, "refresh")
            /\ pump' = [pump EXCEPT ![i] = IF k = 1 THEN "handle2"
                                           ELSE "loop"]
       ELSE /\ IF change_callback = None
               THEN /\ handled' = handled
                    /\ pump' = [pump EXCEPT ![i] = IF k = 1 THEN "handle2"
                                                   ELSE "loop"]
               ELSE \E raised \in BOOLEAN :
                      /\ handled' = Append(handled,
                                           IF raised THEN "callback_raised"
                                           ELSE "callback")
                      /\ pump' = [pump EXCEPT
                                    ![i] = IF AfterCallback(raised) # "loop"
                                           THEN AfterCallback(raised)
                                           ELSE IF k = 1 THEN "handle2"
                                           ELSE "loop"]
            /\ UNCHANGED <<hwVars, lum, backendVars>>
    /\ UNCHANGED <<cfgVars, last, lockVars, restVars, _running, _hwnd,
                   change_callback, _message_thread, wndclass, msgs>>

\* _message_pump after the loop: if self._hwnd, DestroyWindow(self._hwnd)
\* and self._hwnd = None.
Destroy(i) ==
  /\ pump[i] = "destroy"
  /\ _hwnd' = None
  /\ pump' = [pump EXCEPT ![i] = "unregister"]
  /\ UNCHANGED <<hwVars, lum, backendVars, cfgVars, last, lockVars, restVars,
                 _running, change_callback, _message_thread, wndclass,
                 msgs, handled>>

\* _message_pump, UnregisterClass(class_atom, ...), and the thread returns.
Unregister(i) ==
  /\ pump[i] = "unregister"
  /\ wndclass' = None
  /\ pump' = [pump EXCEPT ![i] = "done"]
  /\ UNCHANGED <<hwVars, lum, backendVars, cfgVars, last, lockVars, restVars,
                 _running, _hwnd, change_callback, _message_thread, msgs,
                 handled>>

\* One step of pump thread i.
Pump(i) ==
  \/ Register(i)
  \/ CreateWindow(i)
  \/ LoopTest(i)
  \/ Peek(i)
  \/ Handle(i)
  \/ Destroy(i)
  \/ Unregister(i)

InitListen == InitLock

NextListen ==
  \/ ListenDisplayChange
  \/ StopListening
  \/ Notify
  \/ \E i \in PumpThreads : Pump(i)

SpecListen == InitListen /\ [][NextListen]_vars

\* The scheduler runs every thread that can take a step.
SpecListenFair == SpecListen /\ \A i \in PumpThreads : WF_vars(Pump(i))

-----------------------------------------------------------------------------
(* Claims about the display change listener *)

\* C14: after any sequence of listen_display_change and stop_listening
\* calls, at most one background listening task is alive at any time.
C14_AtMostOneListeningTask ==
  Cardinality({i \in PumpThreads : Alive(i)}) <= 1

\* A Manager on which stop_listening was the last lifecycle call made after
\* a listener had been started.
Stopped == (_message_thread # None) /\ ~_running

\* C15: Stopped is terminal: once stop_listening has been called on a
\* Manager that was listening, no later step sets it running again and no
\* new listening task is started.
C15_StoppedIsTerminal ==
  [][Stopped =>
       /\ ~_running'
       /\ \A i \in PumpThreads :
            (pump[i] = "unborn") => (pump'[i] = "unborn")]_vars

InHandler(i) == pump[i] \in {"handle1", "handle2"}

\* C16: for every display change handled, the refresh completes before the
\* callback is invoked, the callback is invoked exactly once, and one
\* notification's refresh and callback finish before the next begins: the
\* log of what _wnd_proc did is refresh, callback, refresh, callback, ...,
\* at most one thread is inside _wnd_proc, and a refresh without its
\* callback is there only while that thread is between the two.
C16_RefreshThenCallbackOneAtATime ==
  /\ \A j \in DOMAIN handled :
       IF j % 2 = 1 THEN handled[j] = "refresh"
       ELSE handled[j] \in {"callback", "callback_raised"}
  /\ Cardinality({i \in PumpThreads : InHandler(i)}) <= 1
  /\ \A i \in PumpThreads :
       /\ (pump[i] = "handle1") => (Len(handled) % 2 = 0)
       /\ (pump[i] = "handle2") => (Len(handled) % 2 = 1)
  /\ (\A i \in PumpThreads : ~InHandler(i)) => (Len(handled) % 2 = 0)

\* Two display changes were handled, one after the other.
C16_Witness ==
  /\ Len(handled) = 4
  /\ handled[3] = "refresh"
  /\ \A i \in PumpThreads : ~InHandler(i)

\* C17: if the change callback raises while a notification is handled, the
\* exception is not propagated and the listener stays in Listening: the
\* pump thread is back at its loop test with its window, the window class
\* and the running flag as they were.
C17_CallbackExceptionContained ==
  [][(handled' = Append(handled, "callback_raised")) =>
       \E i \in PumpThreads :
         /\ pump[i] = "handle2"
         /\ pump'[i] = "loop"
         /\ _hwnd' = Some(i)
         /\ wndclass' = Some(i)
         /\ _running' = _running
         /\ msgs' = msgs]_vars

\* The callback raised for the first display change; no stop was called, and
\* the same thread handled the second one, refresh then callback.
C17_Witness ==
  /\ Len(handled) = 4
  /\ handled[2] = "callback_raised"
  /\ handled[3] = "refresh"
  /\ pump[1] = "loop"
  /\ pump[2] = "unborn"
  /\ _running

\* C18: after stop_listening is called while a listening task is alive, under
\* fair scheduling that task eventually leaves its loop and terminates,
\* wherever it was when stop was called.
C18_StopTerminatesTask ==
  \A i \in PumpThreads : (Alive(i) /\ ~_running) ~> (pump[i] = "done")

\* What the Manager, the Backend and the config hold, the message queues
\* aside.
QuietVars == <<_running, _hwnd, change_callback, _message_thread, pump,
               wndclass, handled, hwVars, lum, backendVars, cfgVars>>

\* C19: stop_listening is idempotent: called when no listener was ever
\* started, or again after a stop, it raises nothing and leaves the listener
\* state (message queues included), the Backend enumeration and the config
\* exactly as they were.
C19_StopIsNoOp ==
  [][(StopListening /\ ~_running) =>
       /\ ~last'.raised
       /\ UNCHANGED QuietVars
       /\ UNCHANGED msgs]_vars

\* C19, amended: such a call raises nothing and leaves the Manager fields,
\* the pump threads, the Backend enumeration and the config as they were; if
\* self._hwnd still names a window, one more WM_QUIT is posted to it, and
\* otherwise the queues are as they were too.
C19_RepeatedStopOnlyPostsQuit ==
  [][(StopListening /\ ~_running) =>
       /\ ~last'.raised
       /\ UNCHANGED QuietVars
       /\ IF QuitTarget = None THEN msgs' = msgs
          ELSE msgs' = [msgs EXCEPT ![QuitTarget[1]] = Append(@, "WM_QUIT")]]_vars

\* stop_listening was called twice while the window existed: two WM_QUIT
\* wait in the queue of a pump thread that is still alive.
C19_Witness ==
  /\ ~_running
  /\ last.op = "stop_listening"
  /\ \E i \in PumpThreads :
       /\ Alive(i)
       /\ msgs[i] = <<"WM_QUIT", "WM_QUIT">>

-----------------------------------------------------------------------------
(* A Backend call on the foreground thread while the listener thread runs
   refresh_monitors. The Backend has no lock: each read or write of
   self.monitors, self.sbc_displays and self.primary_monitor_index is a step
   of its own, and the steps of the two threads interleave. *)

\* What the three Backend fields say now.
Enumeration ==
  [m |-> Len(monitors), s |-> Len(sbc_displays),
   primary |-> primary_monitor_index]

\* What they say once a refresh that found the hardware h is complete.
Refreshed(h) ==
  [m |-> Len(Enumerate(h.ddc)), s |-> Len(Enumerate(h.sbc)),
   primary |-> _detect_primary_monitor_index(h.primary)]

\* The Backend field a read of the call looked at.
FieldOf(key) ==
  IF key \in {"len_m", "sub_m", "cnt_m"} THEN "m"
  ELSE IF key \in {"cnt_s", "sub_s"} THEN "s"
  ELSE "primary"

\* The hardware in these scenarios: both enumerators list the same displays,
\* any of them is the primary one.
RaceHwStates ==
  {h \in HwStates(MaxCtl) :
     h.ddc >= 0 /\ h.sbc = h.ddc /\ h.primary >= 0 /\ h.primary <= h.ddc}

\* The Backend calls made, and the logical indices they are made for.
RaceOps == {"get_monitor_count", "get_monitor_info", "set_brightness"}
RaceIndices == 0 .. (MaxCtl - 1)

\* The call has read v from the field behind key.
Saw(key, v) == [reader EXCEPT !.seen = (key :> v) @@ @]

\* The call returns ret.
Returned(r, ret) == [r EXCEPT !.pc = "done", !.ret = ret]

\* The foreground thread calls op, for the logical index where it takes one.
CallBackend ==
  /\ reader.pc = "done"
  /\ \E op \in RaceOps, index \in RaceIndices :
       /\ (op = "get_monitor_count") => (index = 0)
       /\ reader' = [op |-> op, index |-> index,
                     pc |-> IF op = "get_monitor_info" THEN "len_m"
                            ELSE "cnt_m",
                     seen |-> <<>>,
                     snaps |-> IF refresher.pc = "idle" THEN {Enumeration}
                               ELSE {refresher.pre,
                                     Refreshed([ddc |-> refresher.ddc,
                                                sbc |-> refresher.sbc,
                                                primary |->
                                                  refresher.primary])},
                     ret |-> None, raised |-> FALSE]
  /\ UNCHANGED <<hwVars, lum, backendVars, cfgVars, last, lockVars, mgrVars,
                 refresher, storeVars>>

\* get_monitor_count: max(len(self.monitors), len(self.sbc_displays)), one
\* read after the other; also as called by set_brightness and by
\* _check_brightness_support inside get_monitor_info.
ReadCount ==
  /\ reader.pc \in {"cnt_m", "cnt_s"}
  /\ IF reader.pc = "cnt_m"
     THEN reader' = [Saw("cnt_m", Len(monitors)) EXCEPT !.pc = "cnt_s"]
     ELSE LET r == Saw("cnt_s", Len(sbc_displays))
              total_count == Max(r.seen["cnt_m"], r.seen["cnt_s"])
              physical_index == _apply_monitor_swap(reader.index)
          IN  reader' =
                IF reader.op = "get_monitor_count"
                THEN Returned(r, Some(total_count))
                ELSE IF reader.op = "get_monitor_info"
                THEN [r EXCEPT !.pc = "prim"]
                ELSE IF physical_index >= total_count
                THEN Returned(r, Some(FALSE))
                ELSE [r EXCEPT !.pc = "ddc_len"]
  /\ UNCHANGED <<hwVars, lum, backendVars, cfgVars, last, lockVars, mgrVars,
                 refresher, storeVars>>

\* get_monitor_info: if physical_index >= len(self.monitors): return None
ReadLen ==
  /\ reader.pc = "len_m"
  /\ LET r == Saw("len_m", Len(monitors))
     IN  reader' = IF _apply_monitor_swap(reader.index) >= Len(monitors)
                   THEN Returned(r, None)
                   ELSE [r EXCEPT !.pc = "sub_m"]
  /\ UNCHANGED <<hwVars, lum, backendVars, cfgVars, last, lockVars, mgrVars,
                 refresher, storeVars>>

\* get_monitor_info: monitor = self.monitors[physical_index], outside any
\* try: IndexError goes to the caller. _check_brightness_support follows.
Subscript ==
  /\ reader.pc = "sub_m"
  /\ reader' = IF _apply_monitor_swap(reader.index) >= Len(monitors)
               THEN [reader EXCEPT !.pc = "done", !.raised = TRUE]
               ELSE [Saw("sub_m", Len(monitors)) EXCEPT !.pc = "cnt_m"]
  /\ UNCHANGED <<hwVars, lum, backendVars, cfgVars, last, lockVars, mgrVars,
                 refresher, storeVars>>

\* get_monitor_info: is_primary = (physical_index ==
\* self.primary_monitor_index), and the MonitorInfo is returned.
ReadPrimary ==
  /\ reader.pc = "prim"
  /\ reader' = Returned(
                 Saw("prim", primary_monitor_index),
                 Some(_apply_monitor_swap(reader.index)
                        = primary_monitor_index))
  /\ UNCHANGED <<hwVars, lum, backendVars, cfgVars, last, lockVars, mgrVars,
                 refresher, storeVars>>

\* set_brightness: if physical_index < len(self.<list>), for the DDC/CI list
\* and then for the platform list.
ListTest ==
  /\ reader.pc \in {"ddc_len", "sbc_len"}
  /\ LET physical_index == _apply_monitor_swap(reader.index)
     IN  reader' =
           IF reader.pc = "ddc_len"
           THEN [reader EXCEPT !.pc = IF physical_index < Len(monitors)
                                      THEN "ddc_sub" ELSE "sbc_len"]
           ELSE IF physical_index < Len(sbc_displays)
           THEN [reader EXCEPT !.pc = "sbc_sub"]
           ELSE Returned(reader, Some(FALSE))
  /\ UNCHANGED <<hwVars, lum, backendVars, cfgVars, last, lockVars, mgrVars,
                 refresher, storeVars>>

\* set_brightness: the subscript and the protocol call inside try/except. An
\* IndexError or a protocol error is caught; the protocol can succeed only
\* for a display the hardware has.
ProtocolWrite ==
  /\ reader.pc \in {"ddc_sub", "sbc_sub"}
  /\ LET physical_index == _apply_monitor_swap(reader.index)
         ddc == reader.pc = "ddc_sub"
         inList == physical_index < (IF ddc THEN Len(monitors)
                                     ELSE Len(sbc_displays))
         there == physical_index < (IF ddc THEN hwDdc ELSE hwSbc)
     IN  \E ok \in BOOLEAN :
           /\ ok => (inList /\ there)
           /\ reader' =
                IF ok THEN Returned(Saw(IF ddc THEN "sub_m" ELSE "sub_s",
                                        IF ddc THEN Len(monitors)
                                        ELSE Len(sbc_displays)),
                                    Some(TRUE))
                ELSE IF ddc THEN [reader EXCEPT !.pc = "sbc_len"]
                ELSE Returned(reader, Some(FALSE))
           /\ lum' = IF ok THEN [lum EXCEPT ![physical_index] = 100] ELSE lum
  /\ UNCHANGED <<hwVars, backendVars, cfgVars, last, lockVars, mgrVars,
                 refresher, storeVars>>

\* The listener thread enters refresh_monitors; the hardware is h by now, a
\* display that was there shows what it showed and a new one the default.
\* No more than MaxRefresh refreshes begin during one call.
RefreshBegin ==
  /\ refresher.pc = "idle"
  /\ (reader.pc # "done") => (Cardinality(reader.snaps) <= MaxRefresh)
  /\ \E h \in RaceHwStates :
       /\ hwDdc' = h.ddc
       /\ hwSbc' = h.sbc
       /\ hwPrimary' = h.primary
       /\ lum' = [k \in PhysIdx |->
                    IF k >= h.ddc THEN 0
                    ELSE IF k < hwDdc THEN lum[k]
                    ELSE DEFAULT_GLOBAL_BRIGHTNESS]
       /\ refresher' = [pc |-> "monitors", ddc |-> h.ddc, sbc |-> h.sbc,
                        primary |-> h.primary, pre |-> Enumeration]
       /\ reader' = IF reader.pc = "done" THEN reader
                    ELSE [reader EXCEPT !.snaps = @ \cup {Refreshed(h)}]
  /\ UNCHANGED <<backendVars, cfgVars, last, lockVars, mgrVars, storeVars>>

\* refresh_monitors, its three assignments in order: self.monitors,
\* self.sbc_displays, self.primary_monitor_index.
RefreshAssign ==
  /\ refresher.pc # "idle"
  /\ LET h == [ddc |-> refresher.ddc, sbc |-> refresher.sbc,
               primary |-> refresher.primary]
         all == [monitors |-> Enumerate(h.ddc),
                 sbc_displays |-> Enumerate(h.sbc),
                 primary_monitor_index |->
                   _detect_primary_monitor_index(h.primary)]
     IN  /\ monitors' = IF refresher.pc = "monitors" THEN all.monitors
                        ELSE monitors
         /\ sbc_displays' = IF refresher.pc = "sbc" THEN all.sbc_displays
                            ELSE sbc_displays
         /\ primary_monitor_index' =
              IF refresher.pc = "primary" THEN all.primary_monitor_index
              ELSE primary_monitor_index
         /\ refresher' =
              [refresher EXCEPT
                 !.pc = IF @ = "monitors" THEN "sbc"
                        ELSE IF @ = "sbc" THEN "primary"
                        ELSE "idle"]
  /\ UNCHANGED <<hwVars, lum, cfgVars, last, lockVars, mgrVars, reader,
                 storeVars>>

InitRace == InitLock

NextRace ==
  \/ CallBackend
  \/ ReadCount
  \/ ReadLen
  \/ Subscript
  \/ ReadPrimary
  \/ ListTest
  \/ ProtocolWrite
  \/ RefreshBegin
  \/ RefreshAssign

SpecRace == InitRace /\ [][NextRace]_vars

-----------------------------------------------------------------------------
(* Claims about Backend calls during a refresh *)

\* The call's reads all agree with the enumeration e.
Agrees(e) == \A key \in DOMAIN reader.seen : reader.seen[key] = e[FieldOf(key)]

\* C21: a Backend read call that runs while the listener thread refreshes
\* observes the complete enumeration from before the refresh or the complete
\* one from after it: what it has read agrees, field by field, with one of
\* the complete enumerations there were during the call.
C21_ReadSeesOneEnumeration ==
  (reader.op \in {"get_monitor_count", "get_monitor_info"}
     /\ reader.pc = "done" /\ ~reader.raised)
    => \E e \in reader.snaps : Agrees(e)

\* C22: a Backend call in flight while a refresh replaces the lists never
\* raises to its caller: it returns absent or failure, or succeeds.
C22_InFlightCallFailsClosed == ~reader.raised

-----------------------------------------------------------------------------
(* ConfigManager: debounced persistence.

   config_file is None while config.json is missing, and otherwise Some of
   what the file holds: a JSON object, or something json.load does not turn
   into a dict. save_timer is the state of the Timer self._save_timer refers
   to: "none", "armed" (waiting for its deadline), "fired" or "cancelled".
   timers counts the Timer objects that wait and those that have expired
   and not yet run _write_config_to_file, which they do on their own thread
   without self._lock. *)

\* A settings file holding the JSON object cfg.
Object(cfg) == [kind |-> "object", value |-> cfg]

\* A settings file json.load raises for.
Garbage == [kind |-> "garbage", value |-> <<>>]

\* save_config(debounce=True) that starts a timer without cancelling the one
\* before.
SaveStacking(debounce, timer, t) ==
  IF debounce
  THEN [save_timer |-> "armed",
        timers |-> [t EXCEPT !.waiting = @ + 1],
        write |-> FALSE]
  ELSE [save_timer |-> IF timer = "armed" THEN "cancelled" ELSE timer,
        timers |-> IF timer = "armed" THEN [t EXCEPT !.waiting = @ - 1]
                   ELSE t,
        write |-> TRUE]

\* save_config with no cancel() in it: a debounced save starts one more
\* timer, an immediate one writes and leaves the timers alone.
SaveCancellingNothing(debounce, timer, t) ==
  IF debounce
  THEN [save_timer |-> "armed",
        timers |-> [t EXCEPT !.waiting = @ + 1],
        write |-> FALSE]
  ELSE [save_timer |-> timer, timers |-> t, write |-> TRUE]

\* save_config(debounce=False) that writes without cancelling the timer.
FlushKeepingTimer(debounce, timer, t) ==
  IF debounce
  THEN [save_timer |-> "armed",
        timers |-> IF timer = "armed" THEN t
                   ELSE [t EXCEPT !.waiting = @ + 1],
        write |-> FALSE]
  ELSE [save_timer |-> timer, timers |-> t, write |-> TRUE]

\* ConfigManager.save_config(debounce), under self._lock: the timer
\* self._save_timer refers to is cancelled, which stops it if it still
\* waits; then a new timer is started, or the file is written at once.
save_config(debounce, timer, t) ==
  LET cancelled == IF timer = "armed" THEN [t EXCEPT !.waiting = @ - 1]
                   ELSE t
  IN  IF debounce
      THEN [save_timer |-> "armed",
            timers |-> [cancelled EXCEPT !.waiting = @ + 1],
            write |-> FALSE]
      ELSE [save_timer |-> IF timer = "armed" THEN "cancelled" ELSE timer,
            timers |-> cancelled,
            write |-> TRUE]

\* What the file system does to a write: it succeeds, open() refuses, or the
\* error comes after open() has emptied the file.
WriteOutcomes == {"ok", "refused", "truncated"}

\* _write_config_to_file that lets the error out.
WritePropagating(outcome, cfg, file) ==
  [file |-> IF outcome = "ok" THEN Some(Object(cfg))
            ELSE IF outcome = "refused" THEN file
            ELSE Some(Garbage),
   ok |-> outcome = "ok",
   raised |-> outcome # "ok"]

\* ConfigManager._write_config_to_file: mkdir, open and json.dump inside
\* try/except Exception, the error is logged.
_write_config_to_file(outcome, cfg, file) ==
  [file |-> IF outcome = "ok" THEN Some(Object(cfg))
            ELSE IF outcome = "refused" THEN file
            ELSE Some(Garbage),
   ok |-> outcome = "ok",
   raised |-> FALSE]

\* The settings changes made in these scenarios: the global_brightness and
\* the auto_start setters.
StoreKeys == {"global_brightness", "auto_start"}

\* A settings change: the setter clamps where it does, set() stores the
\* value and calls save_config(debounce=True). A change that finds no timer
\* waiting begins a burst; the burst is clean while no change of it found
\* an expired timer that had not written yet.
Change ==
  /\ (burst.changes < MaxChanges) \/ (timers.waiting = 0)
  /\ \E key \in StoreKeys :
       /\ IF key = "global_brightness"
          THEN \E v \in Levels :
                 config' = config_set_global_brightness(config, v)
          ELSE \E b \in BOOLEAN : config' = config_set(config, key, b)
       /\ last' = [NoCall EXCEPT !.op = "set", !.arg = Some(key)]
  /\ LET res == save_config(TRUE, save_timer, timers)
     IN  /\ save_timer' = res.save_timer
         /\ timers' = res.timers
  /\ burst' = IF timers.waiting = 0
              THEN [changes |-> 1, writes |-> 0,
                    clean |-> timers.running = 0]
              ELSE [burst EXCEPT !.changes = @ + 1,
                                 !.clean = @ /\ timers.running = 0]
  /\ UNCHANGED <<hwVars, lum, backendVars, config_file, lockVars, mgrVars,
                 raceVars>>

\* The deadline of a waiting timer passes: it can no longer be cancelled.
Expire ==
  /\ timers.waiting > 0
  /\ timers.running < MaxRunning
  /\ timers' = [timers EXCEPT !.waiting = @ - 1, !.running = @ + 1]
  /\ save_timer' = IF timers.waiting = 1 /\ save_timer = "armed"
                   THEN "fired" ELSE save_timer
  /\ last' = [NoCall EXCEPT !.op = "timer_expired"]
  /\ UNCHANGED <<hwVars, lum, backendVars, config, config_file, lockVars,
                 mgrVars, raceVars, burst>>

\* An expired timer runs _write_config_to_file on its thread.
TimerWrite ==
  /\ timers.running > 0
  /\ \E outcome \in WriteOutcomes :
       LET res == _write_config_to_file(outcome, config, config_file)
       IN  /\ config_file' = res.file
           /\ last' = [NoCall EXCEPT !.op = "_write_config_to_file",
                                     !.ret = Some(res.ok),
                                     !.raised = res.raised]
  /\ timers' = [timers EXCEPT !.running = @ - 1]
  /\ burst' = [burst EXCEPT !.writes = @ + 1]
  /\ UNCHANGED <<hwVars, lum, backendVars, config, save_timer, lockVars,
                 mgrVars, raceVars>>

\* save_config(debounce=False), as TrayIcon.on_exit calls it: the burst, if
\* there was one, ends with this write.
Flush ==
  /\ LET res == save_config(FALSE, save_timer, timers)
     IN  /\ save_timer' = res.save_timer
         /\ timers' = res.timers
         /\ \E outcome \in WriteOutcomes :
              LET w == _write_config_to_file(outcome, config, config_file)
              IN  /\ config_file' = IF res.write THEN w.file ELSE config_file
                  /\ last' = [NoCall EXCEPT !.op = "save_config",
                                            !.ret = Some(w.ok),
                                            !.raised = w.raised]
  /\ burst' = [NoBurst EXCEPT !.clean = timers.running = 0]
  /\ UNCHANGED <<hwVars, lum, backendVars, config, lockVars, mgrVars,
                 raceVars>>

InitStore == InitLock

NextStore ==
  \/ Change
  \/ Expire
  \/ TimerWrite
  \/ Flush

SpecStore == InitStore /\ [][NextStore]_vars

-----------------------------------------------------------------------------
(* Claims about persistence *)

\* C23: debounced persistence coalesces. For a burst of settings changes
\* each of which arrived while the timer of the one before still waited,
\* exactly one write belongs to the burst: one timer waits or has expired
\* and no write was made yet, or one write was made and no timer is left;
\* and a timer write that succeeded left the config as of the last change
\* in the file.
C23_BurstWritesOnce ==
  /\ (burst.changes >= 1 /\ burst.clean) =>
       /\ timers.waiting + timers.running + burst.writes = 1
       /\ (timers.waiting = 1) <=> (save_timer = "armed")
  /\ (last.op = "_write_config_to_file" /\ last.ret = Some(TRUE)) =>
       config_file = Some(Object(config))

\* A burst of MaxChanges changes was written once, by the timer of the last.
C23_Witness ==
  /\ burst.changes = MaxChanges
  /\ burst.clean
  /\ burst.writes = 1
  /\ timers = NoTimers
  /\ last.op = "_write_config_to_file"
  /\ last.ret = Some(TRUE)
  /\ config_file = Some(Object(config))
  /\ config.global_brightness = 100

C27_WriteFailureSwallowed ==
  [][/\ (last'.op \in {"_write_config_to_file", "save_config"}
           /\ last'.ret = Some(FALSE))
        => /\ ~last'.raised
           /\ config' = config
           /\ timers'.waiting <= timers.waiting
           /\ timers'.running <= timers.running
           /\ save_timer' # "armed" \/ save_timer = "armed"
     /\ (last.op \in {"_write_config_to_file", "save_config"}
           /\ last.ret = Some(FALSE) /\ last'.op = "set")
        => /\ save_timer' = "armed"
           /\ timers'.waiting = 1]_vars

\* A timer write failed and emptied the file; the change made after it has a
\* timer waiting.
C27_Witness ==
  /\ last.op = "set"
  /\ config_file = Some(Garbage)
  /\ save_timer = "armed"
  /\ timers.waiting = 1
  /\ timers.running = 0
  /\ burst.changes = 1

-----------------------------------------------------------------------------
(* ConfigManager: loading the settings file *)

\* A settings file json.load turns into something that is not a dict.
Array == [kind |-> "array", value |-> <<>>]

\* A settings file open() raises for.
Unreadable == [kind |-> "unreadable", value |-> <<>>]

\* The JSON objects with key, one per value, and the one without it.
Opt(key, values) == {<<>>} \cup {(key :> v) : v \in values}

\* The JSON objects a settings file holds in these scenarios: any subset of
\* the keys, an old or the current version, values in and out of range.
LoadObjects ==
  {v @@ s @@ g @@ p @@ a @@ l :
     v \in Opt("version", {CONFIG_VERSION, "0.9"}),
     s \in Opt("sync_mode", BOOLEAN),
     g \in Opt("global_brightness", BrightnessInputs),
     p \in Opt("per_monitor", {<<>>, (MonitorId(0) :> 150)}),
     a \in Opt("auto_start", {TRUE}),
     l \in Opt("last_monitors", {<<>>})}

\* What config.json can be when it is loaded.
Files ==
  {None, Some(Garbage), Some(Array), Some(Unreadable)}
    \cup {Some(Object(cfg)) : cfg \in LoadObjects}

\* _validate_and_migrate that sets the version and adds no missing key.
MigrateVersionOnly(cfg) ==
  IF "version" \in DOMAIN cfg /\ cfg.version = CONFIG_VERSION THEN cfg
  ELSE config_set(cfg, "version", CONFIG_VERSION)

\* ConfigManager._validate_and_migrate: the version is set to the current
\* one when it differs (a missing one counts as "0.0"), and every key of the
\* default config that is missing gets its default value.
_validate_and_migrate(cfg) ==
  LET config_version == IF "version" \in DOMAIN cfg THEN cfg.version
                        ELSE "0.0"
      migrated == IF config_version # CONFIG_VERSION
                  THEN config_set(cfg, "version", CONFIG_VERSION)
                  ELSE cfg
  IN  migrated @@ _create_default_config

\* ConfigManager.load_config: the default config when the file is missing or
\* when anything raises (open, json.load, or .get on what is not a dict);
\* the validated content otherwise.
load_config(file) ==
  IF file = None THEN _create_default_config
  ELSE IF file[1].kind # "object" THEN _create_default_config
  ELSE _validate_and_migrate(file[1].value)

\* The values callers pass to the ConfigManager setters, and the ids.
ConfigValues == BrightnessInputs
ConfigIds == {MonitorId(0), <<"MONITOR", "1", "x">>}

\* ConfigManager.load_config called again.
LoadConfig ==
  /\ config' = load_config(config_file)
  /\ last' = [NoCall EXCEPT !.op = "load_config"]
  /\ UNCHANGED <<hwVars, lum, backendVars, save_timer, config_file,
                 threadVars>>

\* The save_config(debounce=True) every ConfigManager setter ends with.
Saved ==
  LET res == save_config(TRUE, save_timer, timers)
  IN  /\ save_timer' = res.save_timer
      /\ timers' = res.timers
      /\ UNCHANGED <<hwVars, lum, backendVars, config_file, lockVars,
                     mgrVars, raceVars, burst>>

\* ConfigManager.set("global_brightness", value): the value is stored as
\* given.
ConfigSet ==
  /\ \E value \in ConfigValues :
       /\ config' = config_set(config, "global_brightness", value)
       /\ last' = [NoCall EXCEPT !.op = "set", !.value = value]
  /\ Saved

\* The global_brightness property setter.
ConfigSetGlobal ==
  /\ \E value \in ConfigValues :
       /\ config' = config_set_global_brightness(config, value)
       /\ last' = [NoCall EXCEPT !.op = "global_brightness", !.value = value]
  /\ Saved

\* ConfigManager.set_monitor_brightness(monitor_id, value).
ConfigSetMonitor ==
  /\ \E monitor_id \in ConfigIds, value \in ConfigValues :
       /\ config' = config_set_monitor_brightness(config, monitor_id, value)
       /\ last' = [NoCall EXCEPT !.op = "set_monitor_brightness",
                                 !.arg = Some(monitor_id), !.value = value]
  /\ Saved

\* ConfigManager.__init__: self.config = self.load_config(), whatever the
\* file is.
InitLoad ==
  /\ InitHardware([ddc |-> MaxCtl, sbc |-> MaxCtl, primary |-> 0])
  /\ lum = [k \in PhysIdx |-> IF k < MaxCtl THEN DEFAULT_GLOBAL_BRIGHTNESS
                              ELSE 0]
  /\ config_file \in Files
  /\ config = load_config(config_file)
  /\ save_timer = "none"
  /\ last = NoCall
  /\ ThreadsInit

NextLoad ==
  \/ LoadConfig
  \/ ConfigSet
  \/ ConfigSetGlobal
  \/ ConfigSetMonitor

SpecLoad == InitLoad /\ [][NextLoad]_vars

LogicalIds == {MonitorId(i) : i \in 0 .. MaxIndex}

\* C26: in every reachable state of the Config store, global_brightness and
\* every per_monitor value lie in 0 .. 100, and every per_monitor key is a
\* logical id.
C26_StoredValuesInRange ==
  /\ config_global_brightness(config) \in 0 .. 100
  /\ \A id \in DOMAIN config.per_monitor :
       /\ config.per_monitor[id] \in 0 .. 100
       /\ id \in LogicalIds


-----------------------------------------------------------------------------
(* Sync propagation: the Controller operations that write one value to     *)
(* every monitor, each call recorded together with what the capability     *)
(* probes of its get_monitors() met (last.hw).                             *)

ToggleSyncModeProbed ==
  /\ Idle
  /\ \E enabled \in BOOLEAN, hws \in CtlPatterns : \E wr \in CtlWrites(hws) :
       /\ enabled \/ (hws = NoPattern /\ wr = NoPattern)
       /\ \E acc \in {toggle_sync_mode(enabled, hws, wr)} :
            Commit(acc, [NoCall EXCEPT !.op = "toggle_sync_mode",
                                       !.arg = Some(enabled),
                                       !.hw = Some(hws)])

SetGlobalBrightnessProbed ==
  /\ Idle
  /\ \E value \in BrightnessInputs, hws \in CtlPatterns :
       \E wr \in CtlWrites(hws) :
       \E acc \in {set_global_brightness(value, hws, wr)} :
         Commit(acc, [NoCall EXCEPT !.op = "set_global_brightness",
                                    !.value = value,
                                    !.hw = Some(hws)])

RestoreLastBrightnessProbed ==
  /\ Idle
  /\ \E firstFail \in {ProbeFail(hws0) : hws0 \in CtlPatterns} :
     \E hws \in CtlPatterns : \E wr \in CtlWrites(hws) :
       /\ config_sync_mode(config) \/ (firstFail = ProbeFail(hws))
       /\ \E acc \in {restore_last_brightness(firstFail, hws, wr)} :
            Commit(acc, [NoCall EXCEPT !.op = "restore_last_brightness",
                                       !.hw = Some(hws)])

NextSync ==
  \/ WndProc
  \/ ToggleSyncModeProbed
  \/ SetGlobalBrightnessProbed
  \/ RestoreLastBrightnessProbed
  \/ Return

SpecSync == Init /\ [][NextSync]_vars

\* The ids of the monitors of get_monitors() whose record says
\* supports_brightness, the probes meeting hws.
Capable(hws) ==
  LET infos == get_all_monitors_info(hws)
  IN  {infos[k][1].id :
         k \in {j \in 1 .. Len(infos) :
                  infos[j] # None /\ infos[j][1].supports_brightness}}

\* C28: toggle_sync_mode(enabled) stores enabled as sync_mode and leaves
\* global_brightness and every key other than sync_mode and per_monitor as
\* they were. With enabled true, a write of the stored global_brightness is
\* issued to every monitor whose record says supports_brightness; the monitors
\* whose write succeeded show that value and have it as per_monitor entry, and
\* the per_monitor entry of every other id is as before. With enabled false no
\* write is issued, the displays are as before and the config differs from
\* the one before in sync_mode only.
C28_ToggleFrame ==
  [][(last'.op = "toggle_sync_mode")
     => LET enabled == last'.arg[1]
            g == config_global_brightness(config)
        IN  /\ config_sync_mode(config') = enabled
            /\ config_global_brightness(config') = g
            /\ DOMAIN config' = DOMAIN config
            /\ \A key \in DOMAIN config \ {"sync_mode", "per_monitor"} :
                 config'[key] = config[key]
            /\ enabled =>
                 /\ last'.attempted = Capable(last'.hw[1])
                 /\ last'.wrote \subseteq last'.attempted
                 /\ \A id \in last'.wrote : lum'[PhysOf(id)] = g
                 /\ \A id \in CtlIds :
                      config_get_monitor_brightness(config', id)
                        = IF id \in last'.wrote THEN Some(g)
                          ELSE config_get_monitor_brightness(config, id)
                 /\ DOMAIN config'.per_monitor
                      = DOMAIN config.per_monitor \cup last'.wrote
            /\ ~enabled =>
                 /\ last'.attempted = {}
                 /\ lum' = lum
                 /\ config' = config_set(config, "sync_mode", FALSE)]_vars

C28_Witness ==
  /\ last.op = "toggle_sync_mode"
  /\ last.arg = Some(TRUE)
  /\ last.attempted = {MonitorId(0), MonitorId(1)}
  /\ last.wrote = {MonitorId(1)}
  /\ config_global_brightness(config) = 0
  /\ config_get_monitor_brightness(config, MonitorId(1)) = Some(0)
  /\ config_get_monitor_brightness(config, MonitorId(0)) = Some(100)
  /\ lum[PhysOf(MonitorId(1))] = 0

\* C29: when set_global_brightness(v) has met a failing write, the loop has
\* still issued a write to every monitor whose record says
\* supports_brightness, and every monitor whose write succeeded, before or
\* after the failing one, shows Clamped(v) and has Clamped(v) as its
\* per_monitor entry.
C29_FailureDoesNotStopLoop ==
  (/\ last.op = "set_global_brightness"
   /\ last.attempted \ last.wrote # {})
  => /\ last.attempted = Capable(last.hw[1])
     /\ \A id \in last.wrote :
          /\ lum[PhysOf(id)] = Clamped(last.value)
          /\ config_get_monitor_brightness(config, id)
               = Some(Clamped(last.value))

C29_Witness ==
  /\ last.op = "set_global_brightness"
  /\ last.value = 150
  /\ last.attempted = {MonitorId(0), MonitorId(1)}
  /\ last.wrote = {MonitorId(1)}
  /\ lum[PhysOf(MonitorId(1))] = 100
  /\ config_get_monitor_brightness(config, MonitorId(1)) = Some(100)
  /\ config_get_monitor_brightness(config, MonitorId(0)) = None

\* C30: restore_last_brightness with sync_mode on issues a write of the
\* stored global_brightness to every monitor whose record says
\* supports_brightness, the monitors written successfully show it, and the
\* stored global_brightness is not assigned: its value and every key other
\* than per_monitor are as before, and the only saves asked for are those of
\* the per_monitor entries of the monitors written.
C30_RestoreSyncKeepsGlobal ==
  [][(last'.op = "restore_last_brightness" /\ config_sync_mode(config))
     => LET g == config_global_brightness(config)
        IN  /\ last'.attempted = Capable(last'.hw[1])
            /\ \A id \in last'.wrote : lum'[PhysOf(id)] = g
            /\ config_global_brightness(config') = g
            /\ DOMAIN config' = DOMAIN config
            /\ \A key \in DOMAIN config \ {"per_monitor"} :
                 config'[key] = config[key]
            /\ last'.saves = Cardinality(last'.wrote)
            /\ (last'.wrote = {}) =>
                 (config' = config /\ save_timer' = save_timer)]_vars

C30_Witness ==
  /\ last.op = "restore_last_brightness"
  /\ config_sync_mode(config)
  /\ last.wrote = {MonitorId(0), MonitorId(1)}
  /\ last.saves = 2
  /\ config_global_brightness(config) = 100
  /\ lum[0] = 100 /\ lum[1] = 100


\* C31: restore_last_brightness with sync_mode off issues a write to exactly
\* the monitors whose record says supports_brightness and that have a
\* per_monitor entry, an entry of 0 included; the value handed over is the
\* entry, which a monitor written successfully then shows; every other
\* display is as before, and the config and the pending save are untouched.
C31_RestoreIndividual ==
  [][(last'.op = "restore_last_brightness" /\ ~config_sync_mode(config))
     => /\ last'.attempted =
             {id \in Capable(last'.hw[1]) :
                config_get_monitor_brightness(config, id) # None}
        /\ \A id \in last'.wrote :
             lum'[PhysOf(id)] = config_get_monitor_brightness(config, id)[1]
        /\ \A k \in PhysIdx :
             (\A id \in last'.wrote : PhysOf(id) # k) => lum'[k] = lum[k]
        /\ config' = config
        /\ save_timer' = save_timer
        /\ last'.saves = 0]_vars

C31_Witness ==
  /\ last.op = "restore_last_brightness"
  /\ ~config_sync_mode(config)
  /\ Capable(last.hw[1]) = {MonitorId(0), MonitorId(1)}
  /\ config_get_monitor_brightness(config, MonitorId(0)) = Some(0)
  /\ config_get_monitor_brightness(config, MonitorId(1)) = None
  /\ last.attempted = {MonitorId(0)}
  /\ last.wrote = {MonitorId(0)}
  /\ lum[PhysOf(MonitorId(0))] = 0
  /\ lum[PhysOf(MonitorId(1))] = 100


-----------------------------------------------------------------------------
(* Refresh with its diagnostic loop: after the two lists are replaced,     *)
(* refresh_monitors reads each display once, DDC/CI first and the platform *)
(* protocol when that is missing or raises; the reads are only logged.     *)

\* for i in range(total_count): ... over lists of nDdc and nSbc entries, from
\* position i on; hws says which protocol answers at each position.
RECURSIVE DiagnosticLoop(_, _, _, _)
DiagnosticLoop(nDdc, nSbc, i, hws) ==
  IF i >= Max(nDdc, nSbc) THEN <<>>
  ELSE
    LET ddcLog == IF i < nDdc
                  THEN <<Attempt("ddc", i, 0, hws[i].ddc)>>
                  ELSE <<>>
        ddcOk == i < nDdc /\ hws[i].ddc
        sbcLog == IF ~ddcOk /\ i < nSbc
                  THEN <<Attempt("sbc", i, 0, hws[i].sbc)>>
                  ELSE <<>>
    IN  ddcLog \o sbcLog \o DiagnosticLoop(nDdc, nSbc, i + 1, hws)

\* The lengths of the lists a refresh on hardware h ends with.
ListedBy(n) == IF n < 0 THEN 0 ELSE n

\* What the diagnostic reads can meet; of the patterns that differ only in a
\* protocol the loop does not reach at a position, one is kept.
ProbePatterns(nDdc, nSbc) ==
  {hws \in [0 .. (Max(nDdc, nSbc) - 1) -> Outcomes] :
     \A i \in DOMAIN hws :
       /\ hws[i].ddc => hws[i].sbc
       /\ (i >= nDdc) => ~hws[i].ddc
       /\ (i >= nSbc) => (hws[i].sbc <=> hws[i].ddc)}

\* refresh_monitors on hardware h, the diagnostic reads meeting hws.
RefreshMonitorsProbed ==
  /\ Idle
  /\ \E h \in HwStates(MaxMon) :
    \E hws \in ProbePatterns(ListedBy(h.ddc), ListedBy(h.sbc)) :
      /\ Refresh(h)
      /\ last' = [NoCall EXCEPT
                    !.op = "refresh_monitors",
                    !.hwFail = AnyFail(DiagnosticLoop(
                                 ListedBy(h.ddc), ListedBy(h.sbc), 0, hws)),
                    !.log = DiagnosticLoop(
                              ListedBy(h.ddc), ListedBy(h.sbc), 0, hws)]
      /\ UNCHANGED <<lum, cfgVars, threadVars>>

NextRefresh ==
  \/ RefreshMonitorsProbed
  \/ Return

SpecRefresh == InitEnum /\ [][NextRefresh]_vars

\* C32: refresh_monitors returns without raising whatever the enumerators,
\* the diagnostic reads and the primary detection do. A source whose
\* enumerator raises ends with the empty list, the other with what it
\* listed; a diagnostic read that raises is passed over, every position
\* below the count still being read (through DDC/CI where listed, through
\* the platform protocol where DDC/CI is not listed or raised); the primary
\* index is the flagged position, and 0 when detection raises or finds no
\* flagged display.
C32_RefreshNeverFails ==
  (last.op = "refresh_monitors") =>
    /\ ~last.raised
    /\ monitors = IF hwDdc < 0 THEN <<>> ELSE Enumerate(hwDdc)
    /\ sbc_displays = IF hwSbc < 0 THEN <<>> ELSE Enumerate(hwSbc)
    /\ primary_monitor_index = IF hwPrimary < 0 THEN 0 ELSE hwPrimary
    /\ \A i \in 0 .. (get_monitor_count - 1) :
         /\ (i < Len(monitors)) =>
              \E j \in 1 .. Len(last.log) :
                last.log[j].proto = "ddc" /\ last.log[j].idx = i
         /\ (/\ i < Len(sbc_displays)
             /\ \/ i >= Len(monitors)
                \/ \E j \in 1 .. Len(last.log) :
                     /\ last.log[j].proto = "ddc"
                     /\ last.log[j].idx = i
                     /\ ~last.log[j].ok)
            => \E j \in 1 .. Len(last.log) :
                 last.log[j].proto = "sbc" /\ last.log[j].idx = i

C32_Witness ==
  /\ last.op = "refresh_monitors"
  /\ hwDdc < 0 /\ monitors = <<>>
  /\ hwSbc = 2 /\ Len(sbc_displays) = 2
  /\ hwPrimary < 0 /\ primary_monitor_index = 0
  /\ last.hwFail
  /\ Len(last.log) = 2
  /\ ~last.log[1].ok
  /\ last.log[2].idx = 1


\* C33 as stated: with physical and logical both the mapping
\* _apply_monitor_swap, physical(logical(physical(i))) = i for every index i
\* within bounds.
C33_TripleIsIdentity ==
  (last.op = "_apply_monitor_swap")
  => _apply_monitor_swap(_apply_monitor_swap(last.ret[1])) = last.arg[1]

\* C33, amended: with physical and logical both the mapping
\* _apply_monitor_swap, physical(logical(physical(i))) = physical(i) for
\* every index i within bounds, logical(physical(i)) being i; the triple
\* application is i itself exactly for the indices the mapping passes
\* through, i >= 2, and the other member of the pair for i = 0 and i = 1.
C33_TripleIsSingle ==
  (last.op = "_apply_monitor_swap")
  => LET i == last.arg[1]
         once == last.ret[1]
         twice == _apply_monitor_swap(once)
         thrice == _apply_monitor_swap(twice)
     IN  /\ twice = i
         /\ thrice = once
         /\ (thrice = i) <=> (i >= 2)
         /\ (i \in {0, 1}) => (thrice = 1 - i)

C33_Witness ==
  /\ last.op = "_apply_monitor_swap"
  /\ last.arg = Some(0)
  /\ last.ret = Some(1)
  /\ _apply_monitor_swap(_apply_monitor_swap(last.ret[1])) = 1


-----------------------------------------------------------------------------
(* The protocol calls of one Backend call: get_brightness, set_brightness  *)
(* and the capability check, each recorded with its log.                   *)

\* Backend._check_brightness_support(logical_index) called on its own.
CheckBrightnessSupport ==
  /\ Idle
  /\ \E logical_index \in 0 .. MaxCtl :
       \E hw \in OutcomesAt(_apply_monitor_swap(logical_index)) :
         LET res == _check_brightness_support(logical_index, hw)
         IN  /\ last' = [NoCall EXCEPT !.op = "_check_brightness_support",
                                       !.arg = Some(MonitorId(logical_index)),
                                       !.hw = Some(hw),
                                       !.ret = Some(res.ret),
                                       !.hwFail = AnyFail(res.log),
                                       !.log = res.log]
             /\ UNCHANGED <<hwVars, lum, backendVars, cfgVars, threadVars>>

NextAttempts ==
  \/ WndProc
  \/ GetBrightness
  \/ SetBrightness
  \/ CheckBrightnessSupport
  \/ Return

SpecAttempts == Init /\ [][NextAttempts]_vars

\* The positions of the log at which protocol proto was called.
CallsOf(proto) == {j \in 1 .. Len(last.log) : last.log[j].proto = proto}

\* C34: one get_brightness, set_brightness or capability check calls DDC/CI
\* at most once and the platform protocol at most once, DDC/CI first, both
\* for the one physical index of the call, DDC/CI only inside the DDC/CI
\* list and the platform protocol only inside the platform list; no call
\* follows one that answered, and the operation returns success exactly when
\* its last call answered, failure otherwise.
C34_NoRetry ==
  (last.op \in {"get_brightness", "set_brightness",
                "_check_brightness_support"})
  => LET n == Len(last.log)
         succeeded == IF last.op = "get_brightness" THEN last.ret # None
                      ELSE last.ret = Some(TRUE)
     IN  /\ Cardinality(CallsOf("ddc")) <= 1
         /\ Cardinality(CallsOf("sbc")) <= 1
         /\ n <= 2
         /\ \A j \in CallsOf("ddc"), k \in CallsOf("sbc") : j < k
         /\ \A j \in 1 .. n :
              /\ last.log[j].idx = PhysOf(last.arg[1])
              /\ last.log[j].proto \in {"ddc", "sbc"}
              /\ (last.log[j].proto = "ddc") =>
                   last.log[j].idx < Len(monitors)
              /\ (last.log[j].proto = "sbc") =>
                   last.log[j].idx < Len(sbc_displays)
              /\ (j < n) => ~last.log[j].ok
         /\ succeeded <=> (n > 0 /\ last.log[n].ok)
         /\ (last.op # "get_brightness") => last.ret \in {Some(TRUE), Some(FALSE)}

C34_Witness ==
  /\ last.op = "_check_brightness_support"
  /\ last.ret = Some(FALSE)
  /\ Len(last.log) = 2
  /\ last.log[1].proto = "ddc" /\ ~last.log[1].ok
  /\ last.log[2].proto = "sbc" /\ ~last.log[2].ok
  /\ Len(monitors) = 2 /\ Len(sbc_displays) = 2


\* C35: for every pair of enumeration lengths the list returned by
\* get_all_monitors_info (which get_monitors hands on) has get_monitor_count()
\* entries, none of them None.
C35_ListCoversCount ==
  (last.op = "get_all_monitors_info")
  => /\ Len(last.ret) = get_monitor_count
     /\ \A k \in 1 .. Len(last.ret) : last.ret[k] # None


\* Every monitor whose record says supports_brightness shows the stored
\* global_brightness.
Synced ==
  \A i \in 0 .. (Len(monitors) - 1) :
    (InfoOf(i) # None /\ InfoOf(i)[1].supports_brightness)
      => lum[_apply_monitor_swap(i)] = config_global_brightness(config)

\* C36: once all capable monitors show the stored global_brightness with
\* sync_mode on, every Controller operation that completes with no protocol
\* call failing and with sync_mode still on, set_monitor_brightness on one
\* monitor included, leaves all capable monitors showing the stored
\* global_brightness.
C36_SyncKept ==
  [][(/\ config_sync_mode(config)
      /\ Synced
      /\ last'.op \in ControllerOps
      /\ ~last'.raised
      /\ ~last'.hwFail
      /\ config_sync_mode(config'))
     => Synced']_vars


\* C37: in every Controller step, an id whose per_monitor entry is not what
\* it was before the step is an id whose Backend write returned True in that
\* operation, the entry is the value written and the display shows it; an id
\* whose write failed or was not attempted keeps its entry, or its lack of
\* one.
C37_EntryOnlyAfterSuccess ==
  [][(last'.op \in ControllerOps)
     => /\ \A id \in CtlIds :
             (config_get_monitor_brightness(config', id)
                # config_get_monitor_brightness(config, id))
             => /\ id \in last'.wrote
                /\ config_get_monitor_brightness(config', id)
                     = Some(lum'[PhysOf(id)])
        /\ DOMAIN config'.per_monitor
             \subseteq DOMAIN config.per_monitor \cup last'.wrote
        /\ last'.wrote \subseteq last'.attempted]_vars

C37_Witness ==
  /\ last.op = "set_monitor_brightness"
  /\ last.arg = Some(MonitorId(0))
  /\ last.value = 150
  /\ last.wrote = {MonitorId(0)}
  /\ config_get_monitor_brightness(config, MonitorId(0)) = Some(100)
  /\ config_get_monitor_brightness(config, MonitorId(1)) = None
  /\ lum[PhysOf(MonitorId(0))] = 100


\* C38: at every moment at most one debounce timer is armed (started, not
\* cancelled, its deadline not yet passed), and it is the one _save_timer
\* refers to; timers whose deadline has passed are not counted.
C38_AtMostOneArmed ==
  /\ timers.waiting <= 1
  /\ (timers.waiting = 1) => (save_timer = "armed")
  /\ (save_timer = "armed") => (timers.waiting = 1)

C38_Witness ==
  /\ timers.waiting = 1
  /\ timers.running = 1
  /\ save_timer = "armed"
  /\ burst.changes >= 2
  /\ last.op = "set"


-----------------------------------------------------------------------------
(* The writes of the settings file in time. _write_config_to_file opens    *)
(* the file for writing, which empties it, serialises the config and       *)
(* closes the file, which puts the text on disk. A timer calls it on its   *)
(* own thread with no lock held; save_config(debounce=False) calls it      *)
(* while holding self._lock. timers.writers holds the writes between their *)
(* open and their close, each with the config it serialised. Every write   *)
(* here succeeds.                                                          *)

\* self._lock is free: no save_config(debounce=False) is in its write.
ConfigLockFree ==
  \A j \in 1 .. Len(timers.writers) : timers.writers[j].by # "save_config"

\* The writes in progress, joined by one more: json.dump(self.config, f).
Joined(writers, by) == Append(writers, [by |-> by, cfg |-> config])

\* A setter on a caller's thread; its save_config waits for self._lock.
ChangeLocked ==
  /\ ConfigLockFree
  /\ Change

\* with open(self.config_file, 'w') ... json.dump(self.config, f) on the
\* thread of an expired timer.
TimerWriteBegin ==
  /\ timers.running > 0
  /\ Len(timers.writers) < MaxWriters
  /\ timers' = [timers EXCEPT !.running = @ - 1,
                              !.writers = Joined(@, "timer")]
  /\ config_file' = Some(Garbage)
  /\ last' = [NoCall EXCEPT !.op = "open"]
  /\ UNCHANGED <<hwVars, lum, backendVars, config, save_timer, lockVars,
                 mgrVars, raceVars, burst>>

\* save_config(debounce=False) up to the json.dump of its write.
FlushBegin ==
  /\ ConfigLockFree
  /\ Len(timers.writers) < MaxWriters
  /\ LET res == save_config(FALSE, save_timer, timers)
     IN  /\ save_timer' = res.save_timer
         /\ timers' = [res.timers EXCEPT
                         !.writers = Joined(@, "save_config")]
  /\ config_file' = Some(Garbage)
  /\ last' = [NoCall EXCEPT !.op = "save_config"]
  /\ burst' = [NoBurst EXCEPT !.clean = timers.running = 0]
  /\ UNCHANGED <<hwVars, lum, backendVars, config, lockVars, mgrVars,
                 raceVars>>

\* What is on disk after the close of write w, which puts its text at the
\* start of the file: its text, or, when the file holds the different text
\* another write has put there since w opened it, possibly the text of w
\* followed by the rest of the other.
Closed(w, file) ==
  IF file \notin {None, Some(Garbage), Some(Object(w.cfg))}
  THEN {Some(Object(w.cfg)), Some(Garbage)}
  ELSE {Some(Object(w.cfg))}

\* The end of the with block of a write: the text reaches the disk.
WriteEnd ==
  /\ \E j \in 1 .. Len(timers.writers) :
       /\ config_file' \in Closed(timers.writers[j], config_file)
       /\ timers' = [timers EXCEPT
                       !.writers = [k \in 1 .. (Len(@) - 1) |->
                                      IF k < j THEN @[k] ELSE @[k + 1]]]
  /\ last' = [NoCall EXCEPT !.op = "_write_config_to_file",
                            !.ret = Some(TRUE)]
  /\ burst' = [burst EXCEPT !.writes = @ + 1]
  /\ UNCHANGED <<hwVars, lum, backendVars, config, save_timer, lockVars,
                 mgrVars, raceVars>>

NextWrite ==
  \/ ChangeLocked
  \/ Expire
  \/ TimerWriteBegin
  \/ FlushBegin
  \/ WriteEnd

SpecWrite == InitStore /\ [][NextWrite]_vars

\* The timers and the writes run to their end.
SpecWriteFair ==
  /\ SpecWrite
  /\ WF_vars(Expire)
  /\ WF_vars(TimerWriteBegin)
  /\ WF_vars(WriteEnd)

\* C39: at no moment are two writes of the settings file in progress: a
\* timer's write and the write of save_config(debounce=False), or the writes
\* of two timers, exclude each other.
C39_WritesExclusive == Len(timers.writers) <= 1

\* C40: when the settings changes and the save_config calls stop, at least
\* one change having been made, and no write fails, from some moment on the
\* settings file holds the config in memory.
C40_EventuallyPersisted ==
  (<>(last.op = "set") /\ <>[][~(Change \/ FlushBegin)]_vars)
    => <>[](config_file = Some(Object(config)))

====
